---- MODULE Spec2Model ----
(***************************************************************************)
(* Model of the restore-and-recover state machine of db-restore-cli        *)
(* (src/src/restore-cli.js, class DatabaseRestoreManager): run() from the  *)
(* call of restoreDatabase onward, restoreDatabase, verifyRestoration,     *)
(* fixDatabaseOwnership, tryOwnershipSafeRestore and tryAlternativeRestore.*)
(*                                                                         *)
(* verifyRestoration, fixDatabaseOwnership, detectDumpFormat,               *)
(* processLocalDumpFile and extractBackupFile are also examined on their   *)
(* own, each under a specification of its own (SpecVerify, SpecFix,        *)
(* SpecFile, SpecExtract).  SpecRecreate is the database policy of run and *)
(* the first steps of restoreDatabase, SpecProcess the life of the process *)
(* (run, its catch and finally, the signal and exit handlers, cleanup),    *)
(* and SpecDbeaver is DBeaverManager.addConnection of src/src/dbeaver.js.  *)
(* SpecIntegrate is Step 8 of run (the DBeaver integration), SpecConfirm   *)
(* Steps 5 to 7 of run (existence check, prompts, extraction, recreation), *)
(* and SpecChain the chain restoreDatabase / retry prompt /                *)
(* tryAlternativeRestore with the inputs of every command it issues.       *)
(*                                                                         *)
(* External tools (psql, pg_restore) are the environment: every command    *)
(* the program runs picks its exit status, its output and its effect on    *)
(* the target database nondeterministically.                               *)
(*                                                                         *)
(* Text is modelled at word granularity: a tool output is the set of its   *)
(* lines (no pattern of the source spans two lines), a line is a sequence  *)
(* of words, and a regular expression of the source is a sequence of words *)
(* in which WILD stands for ".*".                                          *)
(***************************************************************************)
EXTENDS Integers, Sequences, FiniteSets, TLC

VARIABLES
    pc,                \* position of the run
    format,            \* format of the detected dump handed to restoreDatabase
    dumpExists,        \* fs.existsSync(filePath)
    dumpSize,          \* fs.statSync(filePath).size
    dbExists,          \* the target database exists on the server
    tables,            \* number of user tables in the target database
    exitCode,          \* status of the primary restore command   (these three
    errorOutput,       \* stderr of the primary restore command    are locals of
    stdOutput,         \* stdout of the primary restore command    restoreDatabase)
    restoreSuccessful, \* local of restoreDatabase
    restoreError,      \* local of restoreDatabase: "none", "ownership", "general"
    caller,            \* who called tryOwnershipSafeRestore
    error,             \* the error restoreDatabase threw to run ("none": none)
    retryChoice,       \* answer to the retry prompt of run
    exitStatus,        \* process exit code, -1 while running
    reported,          \* the success banner of run has been printed
    log,               \* history: the commands run against the target, in order
    vr,                \* one call of verifyRestoration: its environment and verdict
    fx,                \* one call of fixDatabaseOwnership: its progress
    artifact,          \* the file handed to detectDumpFormat / processLocalDumpFile
    detected,          \* what detectDumpFormat returned for artifact
    processed,         \* what processLocalDumpFile did with artifact
    archive,           \* the downloaded backup handed to extractBackupFile
    extracted,         \* listing of the extraction directory
    stagesRun,         \* the discovery stages run so far, with their results
    dbFile,            \* local dbFile of extractBackupFile
    listed,            \* file names listed in the error of extractBackupFile
    commands,          \* history: the extraction commands run on the backup
    manager,           \* fields of the DatabaseRestoreManager that run() is called
                       \* on and, where a property asks, the answers run was given
    process,           \* the process: temp directory, cleanups done, exit
    dataSourcesFile,   \* CONFIG.dbeaver.dataSourcesFile as it is on disk
    connectionId,      \* what addConnection returned
    integration        \* Step 8 of run: what was detected, chosen and caught

vars == <<pc, format, dumpExists, dumpSize, dbExists, tables, exitCode,
          errorOutput, stdOutput, restoreSuccessful, restoreError, caller,
          error, retryChoice, exitStatus, reported, log,
          vr, fx, artifact, detected, processed,
          archive, extracted, stagesRun, dbFile, listed,
          commands, manager, process, dataSourcesFile, connectionId,
          integration>>

\* the manager, the process and the DBeaver data sources
procVars == <<manager, process, dataSourcesFile, connectionId, integration>>

lifeVars == <<commands, manager, process, dataSourcesFile, connectionId,
              integration>>

\* the variables of the functions examined on their own
unitVars == <<vr, fx, artifact, detected, processed,
              archive, extracted, stagesRun, dbFile, listed, lifeVars>>

(***************************************************************************)
(* Bounds                                                                  *)
(***************************************************************************)
MaxTables == 2
MaxErrLines == 2
MaxOutLines == 1

(***************************************************************************)
(* Text, patterns and matching                                             *)
(***************************************************************************)
WILD == ".*"

\* String.prototype.toLowerCase / the "i" flag, on the words that occur
Lower(w) ==
    CASE w = "FATAL" -> "fatal"
      [] w = "ERROR" -> "error"
      [] w = "SQL"   -> "sql"
      [] w = "DUMP"  -> "dump"
      [] OTHER -> w

\* does pattern pat, from element i, match line from word j on
RECURSIVE MatchFrom(_, _, _, _)
MatchFrom(pat, i, line, j) ==
    IF i > Len(pat) THEN TRUE
    ELSE IF pat[i] = WILD
         THEN \E k \in j..(Len(line) + 1) : MatchFrom(pat, i + 1, line, k)
         ELSE /\ j <= Len(line)
              /\ Lower(line[j]) = pat[i]
              /\ MatchFrom(pat, i + 1, line, j + 1)

\* new RegExp(err, 'i').test(text): an unanchored search; "." does not match
\* a line terminator, so a match lies within one line
RegexTest(pat, text) ==
    \E line \in text :
        \E j \in 1..(Len(line) + 1) : MatchFrom(pat, 1, line, j)

ownershipErrors ==
    { <<"must", "be", "owner", "of">>,
      <<"permission", "denied", "for">>,
      <<"role", "\"", WILD, "\"", "does", "not", "exist">>,
      <<"must", "be", "member", "of", "role">>,
      <<"cannot", "drop", "owned", "by">>,
      <<"owner", "of", "database">>,
      <<"must", "be", "superuser">> }

recoverableErrors ==
    { <<"already", "exists">>,
      <<"does", "not", "exist", ",", "skipping">>,
      <<"multiple", "primary", "key">>,
      <<"relation", "already", "exists">>,
      <<"constraint", WILD, "already", "exists">>,
      <<"duplicate", "key", "value">> }

fatalErrors ==
    { <<"fatal", WILD, "authentication", "failed">>,
      <<"could", "not", "connect", "to", "server">>,
      <<"database", WILD, "does", "not", "exist">>,
      <<"invalid", "command">>,
      <<"syntax", "error", "at", "or", "near">>,
      <<"no", "such", "file", "or", "directory">>,
      <<"connection", "refused">> }

hasOwnershipErrors(err, out) ==
    \E p \in ownershipErrors : RegexTest(p, err) \/ RegexTest(p, out)

\* variant: the recoverable patterns are tested against stdout only
hasRecoverableErrors_StdoutOnly(err, out) ==
    \E p \in recoverableErrors : RegexTest(p, out)


hasRecoverableErrors(err, out) ==
    \E p \in recoverableErrors : RegexTest(p, err) \/ RegexTest(p, out)

hasFatalErrors(err, out) ==
    \E p \in fatalErrors : RegexTest(p, err)

\* variant: the ownership branch is tested before the fatal branch
Classify_OwnershipFirst(err, out, code) ==
    IF hasOwnershipErrors(err, out) THEN "ownership"
    ELSE IF hasFatalErrors(err, out) THEN "fatal"
    ELSE IF code # 0 /\ ~hasRecoverableErrors(err, out) THEN "general"
    ELSE "warnings"

\* the if / else-if chain that ends the catch block of the primary command
Classify(err, out, code) ==
    IF hasFatalErrors(err, out) THEN "fatal"
    ELSE IF hasOwnershipErrors(err, out) THEN "ownership"
    ELSE IF code # 0 /\ ~hasRecoverableErrors(err, out) THEN "general"
    ELSE "warnings"

(***************************************************************************)
(* Sample tool output                                                      *)
(***************************************************************************)
LineAuthFatal  == <<"FATAL", ":", "password", "authentication", "failed">>
LineAuthBare   == <<"password", "authentication", "failed">>
LineOwner      == <<"ERROR", ":", "must", "be", "owner", "of", "table", "t">>
LineRelExists  == <<"relation", "already", "exists">>
LineOther      == <<"ERROR", ":", "out", "of", "memory">>

Lines == { LineAuthFatal, LineAuthBare, LineOwner, LineRelExists, LineOther }

\* the outputs of at most n distinct lines
TextsUpTo(n) == { t \in SUBSET Lines : Cardinality(t) <= n }

(***************************************************************************)
(* verifyRestoration: the table count and the verdict                      *)
(***************************************************************************)
Digits == <<"0", "1", "2", "3", "4", "5", "6", "7", "8", "9">>

IsDigit(c) == \E d \in 1..10 : Digits[d] = c

DigitValue(c) == (CHOOSE d \in 1..10 : Digits[d] = c) - 1

\* the decimal digits of n, as psql -t -A prints a COUNT(*)
RECURSIVE DigitsOf(_)
DigitsOf(n) ==
    IF n < 10 THEN <<Digits[n + 1]>>
    ELSE Append(DigitsOf(n \div 10), Digits[(n % 10) + 1])

\* .replace(/[^0-9]/g, '')
StripNonDigits(s) == SelectSeq(s, IsDigit)

\* parseInt(x) || 0 on a string of digits (NaN for the empty string)
RECURSIVE ParseDigits(_, _)
ParseDigits(s, acc) ==
    IF s = <<>> THEN acc
    ELSE ParseDigits(Tail(s), acc * 10 + DigitValue(Head(s)))

ParseIntOrZero(s) == IF s = <<>> THEN 0 ELSE ParseDigits(s, 0)

LineEndings == { <<"\n">>, <<"\r", "\n">> }

\* stdout of the table-count query for a database holding n tables
CountOutput(n, eol) == DigitsOf(n) \o eol

\* totalTableCount: '0' is substituted when the count query throws
TotalTableCount(queryOk, raw) ==
    ParseIntOrZero(StripNonDigits(IF queryOk THEN raw ELSE <<"0">>))

\* the verdict of verifyRestoration: "pass", or the error it throws
VerifyVerdict(connectOk, queryOk, raw) ==
    IF ~connectOk THEN "connect"
    ELSE IF TotalTableCount(queryOk, raw) = 0 THEN "verification"
    ELSE "pass"

\* the commands verifyRestoration runs, in order; "simple_list" is the
\* fallback \\dt listing, run only when "list" throws
VerifySteps == <<"connect", "count", "list", "simple_list", "size",
                 "sequences", "views">>

VerifyEnvs == [ {VerifySteps[i] : i \in 1..Len(VerifySteps)} -> BOOLEAN ]

\* variant: the database-size query has no try block of its own
OnFailure_SizeUnguarded(step) ==
    CASE step = "connect" -> "rethrow"
      [] step = "count"   -> "zero"
      [] step = "size"    -> "rethrow"
      [] OTHER            -> "ignore"

\* what the catch block of a command does with its error
OnFailure(step) ==
    CASE step = "connect" -> "rethrow"
      [] step = "count"   -> "zero"
      [] OTHER            -> "ignore"

\* is the command run at all, under outcomes ok
StepRuns(step, ok) ==
    CASE step = "connect"     -> TRUE
      [] step = "simple_list" -> ok["connect"] /\ ~ok["list"]
      [] OTHER                -> ok["connect"]

\* verifyRestoration under command outcomes ok and count output raw:
\* "pass" for return true, otherwise the error it throws
verifyRestoration(ok, raw) ==
    LET escaped == { i \in 1..Len(VerifySteps) :
                       /\ StepRuns(VerifySteps[i], ok)
                       /\ ~ok[VerifySteps[i]]
                       /\ OnFailure(VerifySteps[i]) = "rethrow" }
        first == CHOOSE i \in escaped : \A j \in escaped : i <= j
    IN  IF escaped = {}
        THEN VerifyVerdict(TRUE, ok["count"], raw)
        ELSE IF VerifySteps[first] = "connect" THEN VerifyVerdict(FALSE, FALSE, raw)
        ELSE "query"

(***************************************************************************)
(* Control flow of restoreDatabase after each step                         *)
(***************************************************************************)
\* variant: a command that exited 0 is trusted without verification
AfterPrimary_TrustExitZero(cls) ==
    IF cls = "fatal" THEN "run_catch_restore"
    ELSE IF cls = "none" THEN "rd_return"
    ELSE "rd_verify1"

\* after the primary command and its catch block
AfterPrimary(cls) == IF cls = "fatal" THEN "run_catch_restore" ELSE "rd_verify1"

\* variant: the fixes are applied for an ownership error only
NeedsOwnershipFix_OwnershipOnly(rErr, rOk) == rErr # "none" /\ rErr = "ownership"

\* if (restoreError && restoreError.type === 'ownership' || !restoreSuccessful)
NeedsOwnershipFix(rErr, rOk) == (rErr # "none" /\ rErr = "ownership") \/ ~rOk

\* if (restoreError && restoreError.type === 'general')
NeedsAlternative(rErr) == rErr # "none" /\ rErr = "general"

AfterVerify1(rErr, rOk) ==
    IF NeedsOwnershipFix(rErr, rOk) THEN "rd_fix"
    ELSE IF NeedsAlternative(rErr) THEN "tosr_entry"
    ELSE "rd_return"

AfterVerify2(rErr) == IF NeedsAlternative(rErr) THEN "tosr_entry" ELSE "rd_return"

\* variant: restoreDatabase returns right after the ladder
AfterLadder_NoFinalVerify(who) ==
    IF who = "restoreDatabase" THEN "rd_return" ELSE "alt_fix"

\* where tryOwnershipSafeRestore returns to
AfterLadder(who) == IF who = "restoreDatabase" THEN "rd_verify3" ELSE "alt_fix"

(***************************************************************************)
(* The ladder of tryOwnershipSafeRestore                                   *)
(***************************************************************************)
\* first rung for a format; formats other than sql and custom have none
FirstRung(fmt) ==
    IF fmt = "sql" THEN "tosr_sql_single_tx"
    ELSE IF fmt = "custom" THEN "tosr_minimal"
    ELSE "tosr_return"

\* variant: the first rung lacks its return, the next rung runs regardless
AfterRung_FallThrough(r, ok) ==
    CASE r = "tosr_sql_single_tx" -> "tosr_sql_no_tx"
      [] r = "tosr_sql_no_tx"     -> "tosr_return"
      [] r = "tosr_minimal"       -> "tosr_data_only"
      [] r = "tosr_data_only"     -> IF ok THEN "tosr_return" ELSE "tosr_schema_only"
      [] r = "tosr_schema_only"   -> IF ok THEN "tosr_schema_data" ELSE "tosr_return"
      [] r = "tosr_schema_data"   -> "tosr_return"

\* position after the command of rung r returned (ok) or threw
AfterRung(r, ok) ==
    CASE r = "tosr_sql_single_tx" -> IF ok THEN "tosr_return" ELSE "tosr_sql_no_tx"
      [] r = "tosr_sql_no_tx"     -> "tosr_return"
      [] r = "tosr_minimal"       -> IF ok THEN "tosr_return" ELSE "tosr_data_only"
      [] r = "tosr_data_only"     -> IF ok THEN "tosr_return" ELSE "tosr_schema_only"
      [] r = "tosr_schema_only"   -> IF ok THEN "tosr_schema_data" ELSE "tosr_return"
      [] r = "tosr_schema_data"   -> "tosr_return"

Rungs == { "tosr_sql_single_tx", "tosr_sql_no_tx", "tosr_minimal",
           "tosr_data_only", "tosr_schema_only", "tosr_schema_data" }

\* table counts a command can leave behind: --data-only creates no table,
\* pg_restore without --clean drops none, a psql script may do either
TablesAfter(r, n) ==
    CASE r \in {"tosr_data_only", "tosr_schema_data"} -> {n}
      [] r \in {"tosr_minimal", "tosr_schema_only"}   -> n..MaxTables
      [] OTHER                                        -> 0..MaxTables

(***************************************************************************)
(* Initial state: run() is about to call restoreDatabase                   *)
(***************************************************************************)
Formats == {"sql", "custom", "directory", "unknown"}

ExitCodes == {0, 1, -1}    \* -1: status null, the command was killed

Entry(op, ok, by) == [op |-> op, ok |-> ok, by |-> by]

\* no function is being examined on its own
Idle == "idle"

VerifyIdle == vr = [verdict |-> Idle]

FixIdle == fx = [outcome |-> Idle]

FileIdle ==
    /\ artifact = [status |-> Idle]
    /\ detected = Idle
    /\ processed = Idle

\* no file: the null of the discovery functions
Null == [format |-> "null"]

ExtractIdle ==
    /\ archive = [status |-> Idle]
    /\ extracted = <<>>
    /\ stagesRun = <<>>
    /\ dbFile = Null
    /\ listed = <<>>
    /\ commands = <<>>

ManagerIdle == manager = [sourceType |-> Idle]

ProcessIdle == process = [status |-> Idle]

DbeaverIdle ==
    /\ dataSourcesFile = [status |-> Idle]
    /\ connectionId = [result |-> Idle]
    /\ integration = [choice |-> Idle]

LifeIdle == ManagerIdle /\ ProcessIdle /\ DbeaverIdle

UnitsIdle == VerifyIdle /\ FixIdle /\ FileIdle /\ ExtractIdle /\ LifeIdle

Init ==
    /\ pc = "run_restore"
    /\ format \in Formats
    /\ dumpExists \in BOOLEAN
    /\ dumpSize \in {0, 1}
    /\ dbExists \in BOOLEAN
    /\ tables \in 0..MaxTables
    /\ (~dbExists => tables = 0)
    /\ (~dumpExists => dumpSize = 0)
    /\ exitCode = 0
    /\ errorOutput = {}
    /\ stdOutput = {}
    /\ restoreSuccessful = FALSE
    /\ restoreError = "none"
    /\ caller = "none"
    /\ error = "none"
    /\ retryChoice = "none"
    /\ exitStatus = -1
    /\ reported = FALSE
    /\ log = <<>>
    /\ UnitsIdle

Throw(e) == /\ error' = e
            /\ pc' = "run_catch_restore"

(***************************************************************************)
(* restoreDatabase                                                         *)
(***************************************************************************)
\* run: await this.restoreDatabase(dbFile, this.targetDatabase)
RunCallRestore ==
    /\ pc = "run_restore"
    /\ UNCHANGED unitVars
    /\ pc' = "rd_check_file"
    /\ UNCHANGED <<format, dumpExists, dumpSize, dbExists, tables, exitCode,
                   errorOutput, stdOutput, restoreSuccessful, restoreError,
                   caller, error, retryChoice, exitStatus, reported, log>>

\* variant: the size of the dump file is not looked at
CheckDumpFile_NoSizeCheck(exists, size) ==
    IF ~exists THEN "dump_missing" ELSE "ok"

\* fs.existsSync(filePath), then fs.statSync(filePath).size === 0
CheckDumpFile(exists, size) ==
    IF ~exists THEN "dump_missing"
    ELSE IF size = 0 THEN "dump_empty"
    ELSE "ok"

\* the dump file must exist and be non-empty
RdCheckFile ==
    /\ pc = "rd_check_file"
    /\ UNCHANGED unitVars
    /\ IF CheckDumpFile(dumpExists, dumpSize) # "ok"
       THEN Throw(CheckDumpFile(dumpExists, dumpSize))
       ELSE /\ pc' = "rd_ensure_db"
            /\ UNCHANGED error
    /\ UNCHANGED <<format, dumpExists, dumpSize, dbExists, tables, exitCode,
                   errorOutput, stdOutput, restoreSuccessful, restoreError,
                   caller, retryChoice, exitStatus, reported, log>>

\* checkDatabaseExists (false when the query throws), then createDatabase
RdEnsureDb ==
    /\ pc = "rd_ensure_db"
    /\ UNCHANGED unitVars
    /\ \E checkOk \in BOOLEAN, createOk \in BOOLEAN :
          IF checkOk /\ dbExists
          THEN /\ pc' = "rd_prepare"
               /\ UNCHANGED <<dbExists, tables, error>>
          ELSE IF ~dbExists /\ createOk
          THEN /\ pc' = "rd_prepare"
               /\ dbExists' = TRUE
               /\ tables' = 0
               /\ UNCHANGED error
          ELSE /\ Throw("create_db")
               /\ UNCHANGED <<dbExists, tables>>
    /\ UNCHANGED <<format, dumpExists, dumpSize, exitCode, errorOutput,
                   stdOutput, restoreSuccessful, restoreError, caller,
                   retryChoice, exitStatus, reported, log>>

\* prepareRestoreOwnership: two guarded statements, never throws
RdPrepare ==
    /\ pc = "rd_prepare"
    /\ UNCHANGED unitVars
    /\ pc' = "rd_primary"
    /\ UNCHANGED <<format, dumpExists, dumpSize, dbExists, tables, exitCode,
                   errorOutput, stdOutput, restoreSuccessful, restoreError,
                   caller, error, retryChoice, exitStatus, reported, log>>

\* variant: the output of the command is classified whatever its exit code
PrimaryOutcome_ClassifyAlways(code, err, out) == Classify(err, out, code)

\* execSync returns when the command exits 0 ("none": nothing to classify)
\* and throws into the catch block, which classifies, otherwise
PrimaryOutcome(code, err, out) ==
    IF code = 0 THEN "none" ELSE Classify(err, out, code)

\* the primary restore command and the classification of its failure
RdPrimary ==
    /\ pc = "rd_primary"
    /\ UNCHANGED unitVars
    /\ \E code \in ExitCodes, err \in TextsUpTo(MaxErrLines),
          out \in TextsUpTo(MaxOutLines), n \in 0..MaxTables :
          /\ exitCode' = code
          /\ errorOutput' = err
          /\ stdOutput' = out
          /\ tables' = n
          /\ log' = Append(log, Entry("primary", code = 0, "restoreDatabase"))
          /\ LET cls == PrimaryOutcome(code, err, out) IN
                  /\ restoreSuccessful' = (cls \in {"none", "warnings"})
                  /\ restoreError' = IF cls \in {"ownership", "general"}
                                     THEN cls ELSE "none"
                  /\ error' = IF AfterPrimary(cls) = "run_catch_restore"
                              THEN "fatal" ELSE "none"
                  /\ pc' = AfterPrimary(cls)
    /\ UNCHANGED <<format, dumpExists, dumpSize, dbExists, caller,
                   retryChoice, exitStatus, reported>>

\* one call of verifyRestoration from restoreDatabase at position at
RdVerifyAt(at, next) ==
    /\ pc = at
    /\ UNCHANGED unitVars
    /\ \E v \in { verifyRestoration(ok, CountOutput(tables, eol)) :
                      ok \in VerifyEnvs, eol \in LineEndings } :
          /\ log' = Append(log, Entry("verify", v = "pass", "restoreDatabase"))
          /\ IF v = "pass"
             THEN /\ pc' = next
                  /\ UNCHANGED error
             ELSE Throw(v)
    /\ UNCHANGED <<format, dumpExists, dumpSize, dbExists, tables, exitCode,
                   errorOutput, stdOutput, restoreSuccessful, restoreError,
                   caller, retryChoice, exitStatus, reported>>

RdVerify1 == RdVerifyAt("rd_verify1", AfterVerify1(restoreError, restoreSuccessful))

RdVerify2 == RdVerifyAt("rd_verify2", AfterVerify2(restoreError))

RdVerify3 == RdVerifyAt("rd_verify3", "rd_return")

\* fixDatabaseOwnership: every statement is guarded, it never throws and
\* creates or drops no table
fixDatabaseOwnership(at, next, by) ==
    /\ pc = at
    /\ UNCHANGED unitVars
    /\ pc' = next
    /\ log' = Append(log, Entry("fix", TRUE, by))
    /\ UNCHANGED <<format, dumpExists, dumpSize, dbExists, tables, exitCode,
                   errorOutput, stdOutput, restoreSuccessful, restoreError,
                   caller, error, retryChoice, exitStatus, reported>>

RdFix == fixDatabaseOwnership("rd_fix", "rd_verify2", "restoreDatabase")

\* the output of the primary command is local to restoreDatabase: it is
\* gone once run goes on past the call
OutOfScope ==
    /\ exitCode' = 0
    /\ errorOutput' = {}
    /\ stdOutput' = {}

\* restoreDatabase returns to run
RdReturn ==
    /\ pc = "rd_return"
    /\ UNCHANGED unitVars
    /\ pc' = "run_dbeaver"
    /\ OutOfScope
    /\ UNCHANGED <<format, dumpExists, dumpSize, dbExists, tables,
                   restoreSuccessful, restoreError,
                   caller, error, retryChoice, exitStatus, reported, log>>

(***************************************************************************)
(* tryOwnershipSafeRestore                                                 *)
(***************************************************************************)
\* entry from restoreDatabase (general failure) or tryAlternativeRestore
TosrEntry ==
    /\ pc = "tosr_entry"
    /\ UNCHANGED unitVars
    /\ caller' = "restoreDatabase"
    /\ pc' = FirstRung(format)
    /\ UNCHANGED <<format, dumpExists, dumpSize, dbExists, tables, exitCode,
                   errorOutput, stdOutput, restoreSuccessful, restoreError,
                   error, retryChoice, exitStatus, reported, log>>

\* one execSync of the ladder; a throw is caught by the rung's own catch
TosrRung(r) ==
    /\ pc = r
    /\ UNCHANGED unitVars
    /\ \E ok \in BOOLEAN, n \in TablesAfter(r, tables) :
          /\ tables' = n
          /\ log' = Append(log, Entry(r, ok, caller))
          /\ pc' = AfterRung(r, ok)
    /\ UNCHANGED <<format, dumpExists, dumpSize, dbExists, exitCode,
                   errorOutput, stdOutput, restoreSuccessful, restoreError,
                   caller, error, retryChoice, exitStatus, reported>>

TosrSqlSingleTx == TosrRung("tosr_sql_single_tx")
TosrSqlNoTx     == TosrRung("tosr_sql_no_tx")
TosrMinimal     == TosrRung("tosr_minimal")
TosrDataOnly    == TosrRung("tosr_data_only")
TosrSchemaOnly  == TosrRung("tosr_schema_only")
TosrSchemaData  == TosrRung("tosr_schema_data")

\* tryOwnershipSafeRestore returns; it never throws
TosrReturn ==
    /\ pc = "tosr_return"
    /\ UNCHANGED unitVars
    /\ pc' = AfterLadder(caller)
    /\ UNCHANGED <<format, dumpExists, dumpSize, dbExists, tables, exitCode,
                   errorOutput, stdOutput, restoreSuccessful, restoreError,
                   caller, error, retryChoice, exitStatus, reported, log>>

(***************************************************************************)
(* run: the catch around restoreDatabase, and the end of the run           *)
(***************************************************************************)
Answers == {"y", "n", "yes"}

\* prompt 'Would you like to try with different restore options? (y/n)'
RunCatchRestore ==
    /\ pc = "run_catch_restore"
    /\ UNCHANGED unitVars
    /\ \E a \in Answers :
          /\ retryChoice' = a
          /\ pc' = IF a = "y" THEN "alt_entry" ELSE "run_catch"
    /\ OutOfScope
    /\ UNCHANGED <<format, dumpExists, dumpSize, dbExists, tables,
                   restoreSuccessful, restoreError,
                   caller, error, exitStatus, reported, log>>

\* tryAlternativeRestore: calls tryOwnershipSafeRestore
AltEntry ==
    /\ pc = "alt_entry"
    /\ UNCHANGED unitVars
    /\ caller' = "tryAlternativeRestore"
    /\ pc' = FirstRung(format)
    /\ UNCHANGED <<format, dumpExists, dumpSize, dbExists, tables, exitCode,
                   errorOutput, stdOutput, restoreSuccessful, restoreError,
                   error, retryChoice, exitStatus, reported, log>>

\* tryAlternativeRestore: fixDatabaseOwnership, then return to run
AltFix == fixDatabaseOwnership("alt_fix", "run_dbeaver", "tryAlternativeRestore")

\* Step 8, DBeaver integration: its failures are caught and logged
RunDbeaver ==
    /\ pc = "run_dbeaver"
    /\ UNCHANGED unitVars
    /\ pc' = "run_report"
    /\ UNCHANGED <<format, dumpExists, dumpSize, dbExists, tables, exitCode,
                   errorOutput, stdOutput, restoreSuccessful, restoreError,
                   caller, error, retryChoice, exitStatus, reported, log>>

\* 'Database restore completed successfully!', then the process ends
RunReport ==
    /\ pc = "run_report"
    /\ UNCHANGED unitVars
    /\ reported' = TRUE
    /\ exitStatus' = 0
    /\ pc' = "done"
    /\ UNCHANGED <<format, dumpExists, dumpSize, dbExists, tables, exitCode,
                   errorOutput, stdOutput, restoreSuccessful, restoreError,
                   caller, error, retryChoice, log>>

\* catch (error) of run: process.exit(1)
RunCatch ==
    /\ pc = "run_catch"
    /\ UNCHANGED unitVars
    /\ exitStatus' = 1
    /\ pc' = "done"
    /\ UNCHANGED <<format, dumpExists, dumpSize, dbExists, tables, exitCode,
                   errorOutput, stdOutput, restoreSuccessful, restoreError,
                   caller, error, retryChoice, reported, log>>

Next ==
    \/ RunCallRestore
    \/ RdCheckFile
    \/ RdEnsureDb
    \/ RdPrepare
    \/ RdPrimary
    \/ RdVerify1
    \/ RdFix
    \/ RdVerify2
    \/ RdVerify3
    \/ RdReturn
    \/ TosrEntry
    \/ TosrSqlSingleTx
    \/ TosrSqlNoTx
    \/ TosrMinimal
    \/ TosrDataOnly
    \/ TosrSchemaOnly
    \/ TosrSchemaData
    \/ TosrReturn
    \/ RunCatchRestore
    \/ AltEntry
    \/ AltFix
    \/ RunDbeaver
    \/ RunReport
    \/ RunCatch

Spec == Init /\ [][Next]_vars

(***************************************************************************)
(* The functions examined on their own: each specification below starts    *)
(* from every environment of one function and applies the function; the    *)
(* run itself is parked meanwhile.                                         *)
(***************************************************************************)
restoreVars == <<pc, format, dumpExists, dumpSize, dbExists, tables, exitCode,
                 errorOutput, stdOutput, restoreSuccessful, restoreError,
                 caller, error, retryChoice, exitStatus, reported, log>>

RunParked ==
    /\ pc = Idle
    /\ format = "sql"
    /\ dumpExists = FALSE
    /\ dumpSize = 0
    /\ dbExists = FALSE
    /\ tables = 0
    /\ exitCode = 0
    /\ errorOutput = {}
    /\ stdOutput = {}
    /\ restoreSuccessful = FALSE
    /\ restoreError = "none"
    /\ caller = "none"
    /\ error = "none"
    /\ retryChoice = "none"
    /\ exitStatus = -1
    /\ reported = FALSE
    /\ log = <<>>

(***************************************************************************)
(* verifyRestoration on its own                                            *)
(***************************************************************************)
InitVerify ==
    /\ RunParked
    /\ vr \in [ ok : VerifyEnvs, tables : 0..MaxTables, eol : LineEndings,
                 verdict : {"pending"} ]
    /\ FixIdle /\ FileIdle /\ ExtractIdle /\ LifeIdle

\* verifyRestoration(dbName) against a database holding vr.tables tables
VerifyRestoration ==
    /\ vr.verdict = "pending"
    /\ vr' = [vr EXCEPT !.verdict =
                  verifyRestoration(vr.ok, CountOutput(vr.tables, vr.eol))]
    /\ UNCHANGED <<restoreVars, fx, artifact, detected, processed,
                   archive, extracted, stagesRun, dbFile, listed,
                   lifeVars>>

NextVerify == VerifyRestoration

SpecVerify == InitVerify /\ [][NextVerify]_vars

(***************************************************************************)
(* fixDatabaseOwnership on its own                                         *)
(*                                                                         *)
(* A category is enumerated by one catalog query (the database needs       *)
(* none) and each object it yields gets the statements of the category.    *)
(* Every psql command may fail; where its error is caught decides what is  *)
(* skipped: "statement" nothing, "object" the rest of that object,         *)
(* "block" the rest of the public-schema grants, "category" the rest of    *)
(* the category, "function" the rest of fixDatabaseOwnership, and an error *)
(* that reaches "caller" is thrown by fixDatabaseOwnership.                *)
(***************************************************************************)
MaxObjects == 2

Categories == <<"database", "schemas", "tables", "sequences", "views",
                "functions">>

CategorySet == { Categories[i] : i \in 1..Len(Categories) }

StatementsOf(cat) ==
    CASE cat = "database"  -> <<"ALTER DATABASE", "GRANT ALL PRIVILEGES",
                                "GRANT CREATE">>
      [] cat = "schemas"   -> <<"ALTER SCHEMA", "GRANT ALL", "GRANT USAGE">>
      [] cat = "tables"    -> <<"ALTER TABLE", "GRANT ALL PRIVILEGES">>
      [] cat = "sequences" -> <<"ALTER SEQUENCE", "GRANT ALL PRIVILEGES">>
      [] cat = "views"     -> <<"ALTER VIEW">>
      [] cat = "functions" -> <<"ALTER FUNCTION">>

\* the grants on the public schema, issued at the end of the schema step
PublicGrants == <<"GRANT ALL", "GRANT USAGE">>

\* variant: the function enumeration runs outside every try block
QueryGuard_Unguarded(cat) ==
    IF cat = "functions" THEN "caller" ELSE "category"

\* where the error of a failed enumeration query is caught
QueryGuard(cat) == "category"

\* variant: the try block of the table step encloses its whole loop only
StatementGuard_LoopInTry(cat) ==
    CASE cat = "database" -> "statement"
      [] cat = "tables"   -> "category"
      [] OTHER            -> "object"

\* where the error of a failed ALTER/GRANT on an enumerated object is caught
StatementGuard(cat) ==
    IF cat = "database" THEN "statement" ELSE "object"

\* where the error of a failed grant on the public schema is caught
PublicGuard == "block"

\* the statements issued from list stmts when those in F fail, the error
\* being caught at level guard
IssuedOf(stmts, F, guard) ==
    IF guard = "statement" THEN { stmts[s] : s \in 1..Len(stmts) }
    ELSE { stmts[s] : s \in { t \in 1..Len(stmts) : \A f \in F : t <= f } }

\* what a caught error means for the rest of the category
HaltOf(guard) ==
    IF guard \in {"statement", "object", "block", "category"} THEN "none"
    ELSE guard

\* the loop over the enumerated objects from object i on; F[j] is the set
\* of statements that fail on object j
RECURSIVE ProcessObjects(_, _, _, _)
ProcessObjects(cat, F, i, touched) ==
    IF i > Cardinality(DOMAIN F)
    THEN [touched |-> touched, halt |-> "none"]
    ELSE IF F[i] = {} \/ StatementGuard(cat) \in {"statement", "object"}
    THEN ProcessObjects(cat, F, i + 1, touched \cup {i})
    ELSE [touched |-> touched \cup {i}, halt |-> StatementGuard(cat)]

\* one step of fixDatabaseOwnership
RunCategory(cat, queryOk, F, Fpub) ==
    IF cat # "database" /\ ~queryOk
    THEN [found |-> -1, touched |-> {}, public |-> {}, caught |-> TRUE,
          halt |-> HaltOf(QueryGuard(cat))]
    ELSE LET r == ProcessObjects(cat, F, 1, {})
             reached == cat = "schemas" /\ r.halt = "none"
         IN  [found   |-> Cardinality(DOMAIN F),
              touched |-> r.touched,
              public  |-> IF reached
                          THEN IssuedOf(PublicGrants, Fpub, PublicGuard)
                          ELSE {},
              caught  |-> \/ \E i \in DOMAIN F : F[i] # {}
                          \/ reached /\ Fpub # {},
              halt    |-> IF r.halt # "none" THEN HaltOf(r.halt)
                          ELSE IF reached /\ Fpub # {} THEN HaltOf(PublicGuard)
                          ELSE "none"]

InitFix ==
    /\ RunParked
    /\ fx = [outcome |-> "running",
             next    |-> 1,
             started |-> <<>>,
             found   |-> [c \in CategorySet |-> -2],
             touched |-> [c \in CategorySet |-> {}],
             caught  |-> [c \in CategorySet |-> FALSE],
             public  |-> {}]
    /\ VerifyIdle /\ FileIdle /\ ExtractIdle /\ LifeIdle

FixStep(cat) ==
    /\ fx.outcome = "running"
    /\ fx.next <= Len(Categories)
    /\ Categories[fx.next] = cat
    /\ \E queryOk \in BOOLEAN,
          n \in (IF cat = "database" THEN {1} ELSE 0..MaxObjects),
          Fpub \in SUBSET (1..Len(PublicGrants)) :
          \E F \in [1..n -> SUBSET (1..Len(StatementsOf(cat)))] :
             LET r == RunCategory(cat, queryOk, F, Fpub) IN
             fx' = [outcome |-> CASE r.halt = "caller"   -> "threw"
                                  [] r.halt = "function" -> "returned"
                                  [] OTHER               -> "running",
                    next    |-> fx.next + 1,
                    started |-> Append(fx.started, cat),
                    found   |-> [fx.found EXCEPT ![cat] = r.found],
                    touched |-> [fx.touched EXCEPT ![cat] = r.touched],
                    caught  |-> [fx.caught EXCEPT ![cat] = r.caught],
                    public  |-> IF cat = "schemas" THEN r.public
                                ELSE fx.public]
    /\ UNCHANGED <<restoreVars, vr, artifact, detected, processed,
                   archive, extracted, stagesRun, dbFile, listed,
                   lifeVars>>

FixDatabase  == FixStep("database")
FixSchemas   == FixStep("schemas")
FixTables    == FixStep("tables")
FixSequences == FixStep("sequences")
FixViews     == FixStep("views")
FixFunctions == FixStep("functions")

\* 'Comprehensive ownership fixes applied': fixDatabaseOwnership returns
FixReturn ==
    /\ fx.outcome = "running"
    /\ fx.next > Len(Categories)
    /\ fx' = [fx EXCEPT !.outcome = "returned"]
    /\ UNCHANGED <<restoreVars, vr, artifact, detected, processed,
                   archive, extracted, stagesRun, dbFile, listed,
                   lifeVars>>

NextFix ==
    \/ FixDatabase
    \/ FixSchemas
    \/ FixTables
    \/ FixSequences
    \/ FixViews
    \/ FixFunctions
    \/ FixReturn

SpecFix == InitFix /\ [][NextFix]_vars

(***************************************************************************)
(* Files.  A file name is the sequence of its parts between dots           *)
(* (<<"backup", "tar", "gz">> is backup.tar.gz, <<"", "sql">> is .sql); a  *)
(* content is a sequence of tokens, each standing for a run of bytes.      *)
(***************************************************************************)
MaxContent == 2

Tokens == { "PGDMP",          \* 0x50 0x47 0x44 0x4D 0x50
            "GZIP",           \* 0x1f 0x8b
            "CREATE TABLE", "toc.dat", "text",
            "connect",        \* the word, as in 'could not connect'
            "\\connect",      \* the psql meta-command, backslash included
            "PAD" }           \* 512 bytes holding no marker

TokenBytes(tok) ==
    CASE tok = "PGDMP"        -> 5
      [] tok = "GZIP"         -> 2
      [] tok = "CREATE TABLE" -> 12
      [] tok = "toc.dat"      -> 7
      [] tok = "text"         -> 4
      [] tok = "connect"      -> 7
      [] tok = "\\connect"    -> 8
      [] tok = "PAD"          -> 512

\* String.prototype.includes, on a single token
Includes(tok, marker) ==
    \/ tok = marker
    \/ tok = "CREATE TABLE" /\ marker = "CREATE"
    \/ tok = "\\connect" /\ marker = "connect"

Contents == UNION { [1..k -> Tokens] : k \in 0..MaxContent }

Names == { <<"backup", "sql">>, <<"backup", "SQL">>, <<"backup", "dump">>,
           <<"backup", "DUMP">>, <<"backup", "tar", "gz">>, <<"backup", "tgz">>,
           <<"backup", "tar">>, <<"backup", "gz">>, <<"backup", "bin">>,
           <<"backup">>, <<"", "sql">> }

\* path.extname without its dot; "" when the name has no extension (a
\* leading dot does not start one)
ExtName(name) ==
    IF Len(name) = 1 \/ (Len(name) = 2 /\ name[1] = "") THEN ""
    ELSE name[Len(name)]

\* filename.endsWith('.' + suffix parts joined by '.')
EndsWith(name, suffix) ==
    /\ Len(name) > Len(suffix)
    /\ SubSeq(name, Len(name) - Len(suffix) + 1, Len(name)) = suffix

(***************************************************************************)
(* detectDumpFormat                                                        *)
(***************************************************************************)
\* Buffer.alloc(512), readSync(fd, buffer, 0, 512, 0)
HeaderBytes == 512

\* the tokens that lie within the first HeaderBytes bytes
RECURSIVE HeaderFrom(_, _, _)
HeaderFrom(content, i, used) ==
    IF i > Len(content) \/ used + TokenBytes(content[i]) > HeaderBytes
    THEN SubSeq(content, 1, i - 1)
    ELSE HeaderFrom(content, i + 1, used + TokenBytes(content[i]))

HeaderOf(content) == HeaderFrom(content, 1, 0)

HeaderIncludes(header, marker) ==
    \E i \in 1..Len(header) : Includes(header[i], marker)

\* buffer[0..4] is the PGDMP magic
HasMagic(content) == Len(content) >= 1 /\ content[1] = "PGDMP"

\* variant: CREATE is not among the SQL patterns
SqlMarkers_NoCreate == { "--", "INSERT", "SET ", "connect", "BEGIN;" }

\* the literal '\connect' of the source denotes the string connect
SqlMarkers == { "--", "CREATE", "INSERT", "SET ", "connect", "BEGIN;" }

DirectoryMarkers == { "toc.dat", "restore.sql" }

\* variant: the SQL patterns are tried before the magic header
SniffContent_MarkersFirst(content) ==
    LET header == HeaderOf(content) IN
    IF \E m \in SqlMarkers : HeaderIncludes(header, m) THEN "sql"
    ELSE IF HasMagic(content) THEN "custom"
    ELSE IF \E m \in DirectoryMarkers : HeaderIncludes(header, m)
         THEN "directory"
    ELSE "sql"

\* the format read off the first bytes of an open file
SniffContent(content) ==
    LET header == HeaderOf(content) IN
    IF HasMagic(content) THEN "custom"
    ELSE IF \E m \in SqlMarkers : HeaderIncludes(header, m) THEN "sql"
    ELSE IF \E m \in DirectoryMarkers : HeaderIncludes(header, m)
         THEN "directory"
    ELSE "sql"

\* variant: only .sql is decided by the extension
ByExtension_SqlOnly(ext) ==
    IF ext = "sql" THEN "sql" ELSE "none"

\* 'Check by extension first'
ByExtension(ext) ==
    IF ext = "sql" THEN "sql"
    ELSE IF ext = "dump" THEN "custom"
    ELSE "none"

\* variant: no catch around the read
detectDumpFormat_NoCatch(f) ==
    IF ByExtension(Lower(ExtName(f.name))) # "none"
    THEN ByExtension(Lower(ExtName(f.name)))
    ELSE IF f.status = "missing" THEN "sql"
    ELSE IF f.status = "unreadable" THEN "raise"
    ELSE SniffContent(f.content)

\* a missing file takes the default, an error of open or read the catch
detectDumpFormat(f) ==
    IF ByExtension(Lower(ExtName(f.name))) # "none"
    THEN ByExtension(Lower(ExtName(f.name)))
    ELSE IF f.status = "missing" THEN "sql"
    ELSE IF f.status = "unreadable" THEN "sql"
    ELSE SniffContent(f.content)

(***************************************************************************)
(* processLocalDumpFile: which extraction the artifact is handed to        *)
(***************************************************************************)
\* buffer[0] === 0x1f && buffer[1] === 0x8b
HasGzipMagic(content) == Len(content) >= 1 /\ content[1] = "GZIP"

\* "tar_gz": extractTarGz, "tar": extractTar, "gz": extractGz, "direct":
\* the path itself is returned, "raise": the peek at the file throws
processLocalDumpFile(f) ==
    IF EndsWith(f.name, <<"tar", "gz">>) \/ EndsWith(f.name, <<"tgz">>)
    THEN "tar_gz"
    ELSE IF EndsWith(f.name, <<"tar">>) THEN "tar"
    ELSE IF EndsWith(f.name, <<"gz">>) /\ ~EndsWith(f.name, <<"tar", "gz">>)
    THEN "gz"
    ELSE IF \/ EndsWith(f.name, <<"sql">>)
            \/ EndsWith(f.name, <<"dump">>)
            \/ detectDumpFormat(f) = "custom"
    THEN "direct"
    ELSE IF f.status # "readable" THEN "raise"
    ELSE IF HasGzipMagic(f.content) THEN "gz"
    ELSE "direct"

Artifacts ==
    { [name |-> n, status |-> "readable", content |-> c] :
         n \in Names, c \in Contents }
    \cup
    { [name |-> n, status |-> st, content |-> <<>>] :
         n \in Names, st \in {"unreadable", "missing"} }

InitFile ==
    /\ RunParked
    /\ artifact \in Artifacts
    /\ detected = "pending"
    /\ processed = "pending"
    /\ VerifyIdle /\ FixIdle /\ ExtractIdle /\ LifeIdle

DetectDumpFormat ==
    /\ detected = "pending"
    /\ detected' = detectDumpFormat(artifact)
    /\ UNCHANGED <<restoreVars, vr, fx, artifact, processed,
                   archive, extracted, stagesRun, dbFile, listed,
                   lifeVars>>

ProcessLocalDumpFile ==
    /\ processed = "pending"
    /\ processed' = processLocalDumpFile(artifact)
    /\ UNCHANGED <<restoreVars, vr, fx, artifact, detected,
                   archive, extracted, stagesRun, dbFile, listed,
                   lifeVars>>

NextFile ==
    \/ DetectDumpFormat
    \/ ProcessLocalDumpFile

SpecFile == InitFile /\ [][NextFile]_vars

(***************************************************************************)
(* extractBackupFile and the discovery of the dump among the extracted     *)
(* files.  The extraction directory is modelled as the listing of its      *)
(* items, in the order readdirSync yields them; an item is a regular file  *)
(* or a directory with a listing of its own.                               *)
(***************************************************************************)
MaxFiles == 2

\* how deep directories nest below the extraction directory
MaxDepth == 1

\* size above which an extension-less file is read for the magic
MinBinaryDumpSize == 1024

Entries ==
    { [name |-> <<"db", "sql">>,         size |-> 2000, content |-> <<"CREATE TABLE">>],
      [name |-> <<"old", "sql">>,        size |-> 100,  content |-> <<"CREATE TABLE">>],
      [name |-> <<"db", "dump">>,        size |-> 2000, content |-> <<"PGDMP">>],
      [name |-> <<"pgdata">>,            size |-> 2000, content |-> <<"PGDMP">>],
      [name |-> <<"blob">>,              size |-> 2000, content |-> <<"text", "PGDMP">>],
      [name |-> <<"tiny">>,              size |-> 100,  content |-> <<"PGDMP">>],
      [name |-> <<"my_backup">>,         size |-> 10,   content |-> <<"text">>],
      [name |-> <<"notes", "txt">>,      size |-> 10,   content |-> <<"text">>],
      [name |-> <<"server", "log">>,     size |-> 3000, content |-> <<"text">>],
      [name |-> <<"empty_dump", "txt">>, size |-> 0,    content |-> <<>>] }

\* the files that sample subdirectories hold
NestedEntries ==
    { e \in Entries : e.name \in { <<"db", "sql">>, <<"db", "dump">>,
                                   <<"server", "log">> } }

\* a file an earlier run left in the directory this run extracts into
StaleEntries ==
    { [name |-> <<"previous", "sql">>, size |-> 5000,
       content |-> <<"CREATE TABLE">>] }

\* the listings of at most n distinct files of entries
ListingsOf(entries, n) ==
    { l \in UNION { [1..k -> entries] : k \in 0..n } :
         \A i, j \in DOMAIN l : i # j => l[i] # l[j] }

\* the listings of at most n distinct files
ListingsUpTo(n) == ListingsOf(Entries, n)

\* stat.isDirectory()
IsDirectory(item) == "items" \in DOMAIN item

Directory(listing) == [name |-> <<"data">>, items |-> listing]

InsertAt(l, p, x) == SubSeq(l, 1, p - 1) \o <<x>> \o SubSeq(l, p, Len(l))

\* the trees of at most n files, directories nesting at most d deep and
\* none of them empty
RECURSIVE TreesOf(_, _, _)
TreesOf(entries, d, n) ==
    ListingsOf(entries, n)
    \cup
    (IF d = 0 \/ n = 0 THEN {}
     ELSE UNION { { InsertAt(l, p, Directory(sub)) :
                       p \in 1..(Len(l) + 1),
                       sub \in TreesOf(NestedEntries, d - 1, n - Len(l))
                                  \ {<<>>} } :
                  l \in ListingsOf(entries, n - 1) })

\* getAllFiles: every regular file, depth first, in listing order
RECURSIVE getAllFiles(_)
getAllFiles(dir) ==
    IF dir = <<>> THEN <<>>
    ELSE (IF IsDirectory(Head(dir)) THEN getAllFiles(Head(dir).items)
          ELSE <<Head(dir)>>)
         \o getAllFiles(Tail(dir))

supportedFormats ==
    << [ext |-> "sql",     format |-> "sql",    priority |-> 1],
       [ext |-> "dump",    format |-> "custom", priority |-> 2],
       [ext |-> "dmp",     format |-> "custom", priority |-> 3],
       [ext |-> "pg_dump", format |-> "custom", priority |-> 4],
       [ext |-> "backup",  format |-> "custom", priority |-> 5],
       [ext |-> "bak",     format |-> "custom", priority |-> 6] >>

\* item.toLowerCase()
LowerName(name) == [i \in 1..Len(name) |-> Lower(name[i])]

\* index of the first supported format whose extension ends the name, 0: none
FormatIndex(name) ==
    LET hits == { k \in 1..Len(supportedFormats) :
                    EndsWith(LowerName(name), <<supportedFormats[k].ext>>) }
    IN  IF hits = {} THEN 0 ELSE CHOOSE k \in hits : \A h \in hits : k <= h

\* path holds the base name of the file
Found(entry, fmt, pri) ==
    [path |-> entry.name, format |-> fmt, priority |-> pri,
     size |-> entry.size]

\* variant: the first file found, whatever its priority
PickBest_First(foundFiles) ==
    IF foundFiles = <<>> THEN Null ELSE foundFiles[1]

\* foundFiles.sort((a, b) => a.priority - b.priority)[0]: the sort is stable
PickBest(foundFiles) ==
    IF foundFiles = <<>> THEN Null
    ELSE foundFiles[CHOOSE i \in 1..Len(foundFiles) :
                       \A j \in 1..Len(foundFiles) :
                          \/ foundFiles[i].priority < foundFiles[j].priority
                          \/ /\ foundFiles[i].priority = foundFiles[j].priority
                             /\ i <= j]

\* searchForDatabaseFile: a directory contributes what the search of it
\* returns, a file contributes itself when its extension is supported
RECURSIVE searchForDatabaseFile(_)
searchForDatabaseFile(dir) ==
    LET of(item) ==
            IF IsDirectory(item) THEN searchForDatabaseFile(item.items)
            ELSE IF FormatIndex(item.name) # 0
            THEN Found(item, supportedFormats[FormatIndex(item.name)].format,
                       supportedFormats[FormatIndex(item.name)].priority)
            ELSE Null
        each == [i \in 1..Len(dir) |-> of(dir[i])]
    IN  PickBest(SelectSeq(each, LAMBDA r : r # Null))

findDatabaseFile(dir) == searchForDatabaseFile(dir)

\* readFileSync(filePath, { start: 0, end: 5 }) reads the whole file:
\* magic.includes('PGDMP') looks at all of it
IsBinaryDump(entry) ==
    /\ Len(entry.name) = 1
    /\ entry.size > MinBinaryDumpSize
    /\ \E i \in 1..Len(entry.content) : Includes(entry.content[i], "PGDMP")

findBinaryDump(dir) ==
    LET files == getAllFiles(dir)
        hits  == { i \in 1..Len(files) : IsBinaryDump(files[i]) }
    IN  IF hits = {} THEN Null
        ELSE Found(files[CHOOSE i \in hits : \A h \in hits : i <= h],
                   "custom", 2)

\* the words of dbPatterns that occur in a part of a sample name
WordsIn(part) ==
    CASE part = "my_backup"  -> {"backup"}
      [] part = "empty_dump" -> {"dump"}
      [] part = "backup"     -> {"backup"}
      [] part = "dump"       -> {"dump"}
      [] part = "pg_dump"    -> {"pg_", "dump"}
      [] OTHER               -> {}

\* dbPatterns: /database/i /backup/i /dump/i /\.db$/i /\.bak$/i /postgres/i /pg_/i
MatchesDbPattern(name) ==
    \/ \E i \in 1..Len(name) :
          WordsIn(Lower(name[i])) \cap
             {"database", "backup", "dump", "postgres", "pg_"} # {}
    \/ EndsWith(LowerName(name), <<"db">>)
    \/ EndsWith(LowerName(name), <<"bak">>)

findAnyDatabaseFile(dir) ==
    LET files == getAllFiles(dir)
        hits  == { i \in 1..Len(files) :
                     MatchesDbPattern(files[i].name) /\ files[i].size > 0 }
    IN  IF hits = {} THEN Null
        ELSE Found(files[CHOOSE i \in hits : \A h \in hits : i <= h],
                   "unknown", 10)

\* findExtractedSqlFile: the .sql and .dump files at the top of directory
\* (readdirSync does not descend, endsWith is case-sensitive)
SqlFilesOf(directory) ==
    SelectSeq(directory,
              LAMBDA item : \/ EndsWith(item.name, <<"sql">>)
                            \/ EndsWith(item.name, <<"dump">>))

\* largestFile = sqlFiles[0], largestSize = 0; a file replaces largestFile
\* when its size is greater than largestSize
LargestOf(sqlFiles) ==
    LET top == CHOOSE m \in { sqlFiles[i].size : i \in 1..Len(sqlFiles) } :
                  \A i \in 1..Len(sqlFiles) : sqlFiles[i].size <= m
    IN  IF top = 0 THEN sqlFiles[1]
        ELSE sqlFiles[CHOOSE i \in 1..Len(sqlFiles) :
                         /\ sqlFiles[i].size = top
                         /\ \A j \in 1..(i - 1) : sqlFiles[j].size < top]

\* Null stands for the throw 'No .sql or .dump files found in extracted
\* archive'; the function returns a path, no format
findExtractedSqlFile(directory) ==
    LET sqlFiles == SqlFilesOf(directory)
    IN  IF sqlFiles = <<>> THEN Null
        ELSE IF Len(sqlFiles) = 1 THEN Found(sqlFiles[1], "undetected", 0)
        ELSE Found(LargestOf(sqlFiles), "undetected", 0)

\* what the directory holds after tar has unpacked tree into it: the items
\* it held that the archive does not overwrite, and the items of the archive
ExtractInto(directory, tree) ==
    SelectSeq(directory,
              LAMBDA item : \A i \in 1..Len(tree) : tree[i].name # item.name)
    \o tree

\* handleCompressedFile takes the archive: a .gz that is not a .tar.gz
IsCompressedFile(name) ==
    Lower(ExtName(name)) = "gz" /\ ~EndsWith(name, <<"tar", "gz">>)

\* path.basename(filePath, ext)
BaseName(name) == SubSeq(name, 1, Len(name) - 1)

ArchiveNames == { <<"backup", "tar", "gz">>, <<"backup", "tar">>,
                  <<"backup", "sql", "gz">>, <<"backup", "gz">> }

SourceTypes == {"cloud", "local"}

\* variant: each stage runs whatever the one before it found
AfterStage_NoShortCircuit(at, found) ==
    CASE at = "ex_find_database" -> "ex_find_binary"
      [] at = "ex_find_binary"   -> "ex_find_any"
      [] at = "ex_find_any"      -> IF found THEN "ex_return" ELSE "ex_fail"

\* if (!dbFile) before each later stage and before the throw
AfterStage(at, found) ==
    IF found THEN "ex_return"
    ELSE CASE at = "ex_find_database" -> "ex_find_binary"
           [] at = "ex_find_binary"   -> "ex_find_any"
           [] at = "ex_find_any"      -> "ex_fail"

\* run is about to extract the backup: extractBackupFile on the downloaded
\* archive (cloud), processLocalDumpFile on the selected file (local).
\* extracted starts as what is on disk in the directory the extraction
\* uses: cleanup of an earlier run may have failed to remove it.
InitExtract ==
    /\ manager \in [ sourceType : SourceTypes, createNewDB : {FALSE},
                     replaceExisting : {FALSE}, cleanupDone : {FALSE} ]
    /\ pc = IF manager.sourceType = "cloud" THEN "ex_mkdir" ELSE "lp_process"
    /\ format = "sql"
    /\ dumpExists = FALSE
    /\ dumpSize = 0
    /\ dbExists \in BOOLEAN
    /\ tables = 0
    /\ exitCode = 0
    /\ errorOutput = {}
    /\ stdOutput = {}
    /\ restoreSuccessful = FALSE
    /\ restoreError = "none"
    /\ caller = "none"
    /\ error = "none"
    /\ retryChoice = "none"
    /\ exitStatus = -1
    /\ reported = FALSE
    /\ log = <<>>
    /\ archive \in [ name : ArchiveNames, status : {"downloaded"},
                     tree : TreesOf(Entries, MaxDepth, MaxFiles) ]
    /\ extracted \in ListingsOf(StaleEntries, 1)
    /\ stagesRun = <<>>
    /\ dbFile = Null
    /\ listed = <<>>
    /\ commands = <<>>
    /\ ProcessIdle /\ DbeaverIdle
    /\ VerifyIdle /\ FixIdle /\ FileIdle

\* extractBackupFile: rm -rf of the extraction directory when it exists,
\* then mkdirSync
ExMkdir ==
    /\ pc = "ex_mkdir"
    /\ \E ok \in BOOLEAN :
          IF ok
          THEN /\ extracted' = <<>>
               /\ pc' = "ex_compressed"
               /\ UNCHANGED error
          ELSE /\ error' = "extract"
               /\ pc' = "run_catch"
               /\ UNCHANGED extracted
    /\ UNCHANGED <<format, dumpExists, dumpSize, dbExists, tables, exitCode,
                   errorOutput, stdOutput, restoreSuccessful, restoreError,
                   caller, retryChoice, exitStatus, reported, log,
                   vr, fx, artifact, detected, processed,
                   archive, stagesRun, dbFile, listed, lifeVars>>

\* handleCompressedFile: a failed gunzip is caught there and null returned
ExHandleCompressed ==
    /\ pc = "ex_compressed"
    /\ \E ok \in BOOLEAN, size \in {0, 2000} :
          /\ commands' = IF IsCompressedFile(archive.name)
                         THEN Append(commands,
                                     Entry("gunzip", ok, "handleCompressedFile"))
                         ELSE commands
          /\ IF IsCompressedFile(archive.name) /\ ok
             THEN /\ dbFile' = [path     |-> BaseName(archive.name),
                                format   |-> IF EndsWith(BaseName(archive.name),
                                                         <<"sql">>)
                                             THEN "sql" ELSE "custom",
                                priority |-> 1,
                                size     |-> size]
                  /\ extracted' = <<[name    |-> BaseName(archive.name),
                                     size    |-> size,
                                     content |-> <<>>]>>
                  /\ dumpExists' = TRUE
                  /\ dumpSize' = size
                  /\ pc' = "run_recreate"
             ELSE /\ pc' = "ex_tar"
                  /\ UNCHANGED <<dbFile, extracted, dumpExists, dumpSize>>
    /\ UNCHANGED <<format, dbExists, tables, exitCode,
                   errorOutput, stdOutput, restoreSuccessful, restoreError,
                   caller, error, retryChoice, exitStatus, reported, log,
                   vr, fx, artifact, detected, processed,
                   archive, stagesRun, listed, procVars>>

\* the tar command; its failure leaves extractBackupFile through the catch
ExTar ==
    /\ pc = "ex_tar"
    /\ \E ok \in BOOLEAN :
          /\ commands' = Append(commands, Entry("tar", ok, "extractBackupFile"))
          /\ IF ok
             THEN /\ extracted' = ExtractInto(extracted, archive.tree)
                  /\ pc' = "ex_find_database"
                  /\ UNCHANGED error
             ELSE /\ error' = "extract"
                  /\ pc' = "run_catch"
                  /\ UNCHANGED extracted
    /\ UNCHANGED <<format, dumpExists, dumpSize, dbExists, tables, exitCode,
                   errorOutput, stdOutput, restoreSuccessful, restoreError,
                   caller, retryChoice, exitStatus, reported, log,
                   vr, fx, artifact, detected, processed,
                   archive, stagesRun, dbFile, listed, procVars>>

\* one discovery stage at position at, r being what it returns
ExStage(at, stage, r) ==
    /\ pc = at
    /\ stagesRun' = Append(stagesRun, [stage |-> stage, result |-> r])
    /\ dbFile' = r
    /\ pc' = AfterStage(at, r # Null)
    /\ UNCHANGED <<format, dumpExists, dumpSize, dbExists, tables, exitCode,
                   errorOutput, stdOutput, restoreSuccessful, restoreError,
                   caller, error, retryChoice, exitStatus, reported, log,
                   vr, fx, artifact, detected, processed,
                   archive, extracted, listed, lifeVars>>

ExFindDatabaseFile ==
    ExStage("ex_find_database", "findDatabaseFile", findDatabaseFile(extracted))

ExFindBinaryDump ==
    ExStage("ex_find_binary", "findBinaryDump", findBinaryDump(extracted))

ExFindAnyDatabaseFile ==
    ExStage("ex_find_any", "findAnyDatabaseFile", findAnyDatabaseFile(extracted))

\* 'No database file found in the backup archive ... Found files: ...'
ExFail ==
    /\ pc = "ex_fail"
    /\ listed' = [i \in 1..Len(getAllFiles(extracted)) |->
                     getAllFiles(extracted)[i].name]
    /\ error' = "no_database_file"
    /\ pc' = "run_catch"
    /\ UNCHANGED <<format, dumpExists, dumpSize, dbExists, tables, exitCode,
                   errorOutput, stdOutput, restoreSuccessful, restoreError,
                   caller, retryChoice, exitStatus, reported, log,
                   vr, fx, artifact, detected, processed,
                   archive, extracted, stagesRun, dbFile, lifeVars>>

\* return dbFile; restoreDatabase will find the file on disk
ExReturn ==
    /\ pc = "ex_return"
    /\ dumpExists' = TRUE
    /\ dumpSize' = dbFile.size
    /\ pc' = "run_recreate"
    /\ UNCHANGED <<format, dbExists, tables, exitCode,
                   errorOutput, stdOutput, restoreSuccessful, restoreError,
                   caller, error, retryChoice, exitStatus, reported, log,
                   vr, fx, artifact, detected, processed,
                   archive, extracted, stagesRun, dbFile, listed, lifeVars>>

\* processLocalDumpFile: the temp directory is created when it is missing
\* and left as it is otherwise; then the dispatch on the file name
LpProcess ==
    /\ pc = "lp_process"
    /\ LET f == [name |-> archive.name, status |-> "readable",
                 content |-> <<"GZIP">>]
           d == processLocalDumpFile(f)
       IN  /\ pc' = CASE d \in {"tar_gz", "tar"} -> "lp_extract_tar"
                      [] d = "gz"                -> "lp_extract_gz"
                      [] d = "direct"            -> "lp_check"
                      [] OTHER                   -> "run_catch"
           /\ dbFile' = IF d = "direct"
                        THEN [path |-> archive.name, format |-> "undetected",
                              priority |-> 0, size |-> 2000]
                        ELSE dbFile
           /\ error' = IF d = "raise" THEN "process_local" ELSE error
    /\ UNCHANGED <<format, dumpExists, dumpSize, dbExists, tables, exitCode,
                   errorOutput, stdOutput, restoreSuccessful, restoreError,
                   caller, retryChoice, exitStatus, reported, log,
                   vr, fx, artifact, detected, processed,
                   archive, extracted, stagesRun, listed, lifeVars>>

\* extractTarGz and extractTar: the tar command into the temp directory,
\* then findExtractedSqlFile there; every failure is rethrown
LpExtractTar ==
    /\ pc = "lp_extract_tar"
    /\ \E ok \in BOOLEAN :
          LET by    == IF EndsWith(archive.name, <<"tar">>) THEN "extractTar"
                       ELSE "extractTarGz"
              after == ExtractInto(extracted, archive.tree)
              r     == findExtractedSqlFile(after)
          IN  /\ commands' = Append(commands, Entry("tar", ok, by))
              /\ extracted' = IF ok THEN after ELSE extracted
              /\ IF ok /\ r # Null
                 THEN /\ dbFile' = r
                      /\ pc' = "lp_check"
                      /\ UNCHANGED error
                 ELSE /\ error' = "extract"
                      /\ pc' = "run_catch"
                      /\ UNCHANGED dbFile
    /\ UNCHANGED <<format, dumpExists, dumpSize, dbExists, tables, exitCode,
                   errorOutput, stdOutput, restoreSuccessful, restoreError,
                   caller, retryChoice, exitStatus, reported, log,
                   vr, fx, artifact, detected, processed,
                   archive, stagesRun, listed, procVars>>

\* extractGz: gunzip into the temp directory under the base name of the
\* archive, '.sql' appended when that has no extension
LpExtractGz ==
    /\ pc = "lp_extract_gz"
    /\ \E ok \in BOOLEAN, size \in {0, 2000} :
          LET base == BaseName(archive.name)
              out  == [name    |-> IF ExtName(base) = ""
                                   THEN base \o <<"sql">> ELSE base,
                       size    |-> size,
                       content |-> <<>>]
          IN  /\ commands' = Append(commands, Entry("gunzip", ok, "extractGz"))
              /\ IF ok
                 THEN /\ extracted' = ExtractInto(extracted, <<out>>)
                      /\ dbFile' = Found(out, "undetected", 0)
                      /\ pc' = "lp_check"
                      /\ UNCHANGED error
                 ELSE /\ error' = "extract"
                      /\ pc' = "run_catch"
                      /\ UNCHANGED <<extracted, dbFile>>
    /\ UNCHANGED <<format, dumpExists, dumpSize, dbExists, tables, exitCode,
                   errorOutput, stdOutput, restoreSuccessful, restoreError,
                   caller, retryChoice, exitStatus, reported, log,
                   vr, fx, artifact, detected, processed,
                   archive, stagesRun, listed, procVars>>

\* run: the processed file was just found or written, existsSync holds
LpCheck ==
    /\ pc = "lp_check"
    /\ dumpExists' = TRUE
    /\ dumpSize' = dbFile.size
    /\ pc' = "run_recreate"
    /\ UNCHANGED <<format, dbExists, tables, exitCode,
                   errorOutput, stdOutput, restoreSuccessful, restoreError,
                   caller, error, retryChoice, exitStatus, reported, log,
                   vr, fx, artifact, detected, processed,
                   archive, extracted, stagesRun, dbFile, listed, lifeVars>>

\* the four settings the database menu and the overwrite prompt of run
\* leave in createNewDB and replaceExisting
Policies ==
    { [createNewDB |-> TRUE,  replaceExisting |-> FALSE],
      [createNewDB |-> TRUE,  replaceExisting |-> TRUE],
      [createNewDB |-> FALSE, replaceExisting |-> FALSE],
      [createNewDB |-> FALSE, replaceExisting |-> TRUE] }

\* run: 'Handle database creation/recreation'
RunRecreate ==
    /\ pc = "run_recreate"
    /\ \E checkOk \in BOOLEAN, dropOk \in BOOLEAN, createOk \in BOOLEAN :
          LET replaceExisting == manager.replaceExisting
              createNewDB     == manager.createNewDB
              seen     == checkOk /\ dbExists
              drops    == (replaceExisting \/ createNewDB)
                             /\ replaceExisting /\ seen
              dropped  == drops /\ dropOk
              creates  == (replaceExisting \/ createNewDB)
                             /\ (createNewDB \/ ~seen)
                             /\ (drops => dropOk)
              exists1  == dbExists /\ ~dropped
              created  == creates /\ createOk /\ ~exists1
              failed   == (drops /\ ~dropOk) \/ (creates /\ ~created)
          IN  /\ log' = log
                         \o (IF drops THEN <<Entry("drop", dropOk, "run")>>
                             ELSE <<>>)
                         \o (IF creates THEN <<Entry("create", created, "run")>>
                             ELSE <<>>)
              /\ dbExists' = (exists1 \/ created)
              /\ error' = IF drops /\ ~dropOk THEN "drop_db"
                          ELSE IF creates /\ ~created THEN "create_db"
                          ELSE error
              /\ pc' = IF failed THEN "run_catch" ELSE "run_restore"
    /\ UNCHANGED <<format, dumpExists, dumpSize, tables, exitCode,
                   errorOutput, stdOutput, restoreSuccessful, restoreError,
                   caller, retryChoice, exitStatus, reported,
                   vr, fx, artifact, detected, processed,
                   archive, extracted, stagesRun, dbFile, listed, lifeVars>>

NextExtract ==
    \/ ExMkdir
    \/ ExHandleCompressed
    \/ ExTar
    \/ ExFindDatabaseFile
    \/ ExFindBinaryDump
    \/ ExFindAnyDatabaseFile
    \/ ExFail
    \/ ExReturn
    \/ LpProcess
    \/ LpExtractTar
    \/ LpExtractGz
    \/ LpCheck
    \/ RunCatch

SpecExtract == InitExtract /\ [][NextExtract]_vars

(***************************************************************************)
(* run from the extracted dump to the first command of restoreDatabase:    *)
(* the creation/recreation block and the existence check of                *)
(* restoreDatabase.                                                        *)
(***************************************************************************)
\* the dump files extraction may hand over
DumpFiles ==
    { [path |-> <<"db", "sql">>, format |-> "sql", priority |-> 1,
       size |-> size] : size \in {0, 2000} }

\* run has extracted the dump and is about to handle the target database
InitRecreate ==
    /\ pc = "run_recreate"
    /\ manager \in { [sourceType |-> st, createNewDB |-> p.createNewDB,
                       replaceExisting |-> p.replaceExisting,
                       cleanupDone |-> FALSE] :
                         st \in SourceTypes, p \in Policies }
    /\ dbFile \in DumpFiles
    /\ format = "sql"
    /\ dumpExists = TRUE
    /\ dumpSize = dbFile.size
    /\ dbExists \in BOOLEAN
    /\ tables \in 0..MaxTables
    /\ (~dbExists => tables = 0)
    /\ exitCode = 0
    /\ errorOutput = {}
    /\ stdOutput = {}
    /\ restoreSuccessful = FALSE
    /\ restoreError = "none"
    /\ caller = "none"
    /\ error = "none"
    /\ retryChoice = "none"
    /\ exitStatus = -1
    /\ reported = FALSE
    /\ log = <<>>
    /\ archive = [status |-> Idle]
    /\ extracted = <<>>
    /\ stagesRun = <<>>
    /\ listed = <<>>
    /\ commands = <<>>
    /\ ProcessIdle /\ DbeaverIdle
    /\ VerifyIdle /\ FixIdle /\ FileIdle

NextRecreate ==
    \/ RunRecreate
    \/ RunCallRestore
    \/ RdCheckFile
    \/ RdEnsureDb
    \/ RunCatch

SpecRecreate == InitRecreate /\ [][NextRecreate]_vars

(***************************************************************************)
(* run from the database existence check of Step 5 to the creation /       *)
(* recreation block of Step 7: the overwrite prompt, the confirmation      *)
(* prompt, the download and extraction taken as one step, and the drop     *)
(* and create of the target.                                               *)
(***************************************************************************)
\* what the switch over the database menu leaves in the two flags; cases 0
\* and 1 leave replaceExisting as the constructor set it
DatabaseMenu(dbChoice) ==
    CASE dbChoice \in {0, 1} -> [createNewDB |-> TRUE,  replaceExisting |-> FALSE]
      [] dbChoice = 2        -> [createNewDB |-> FALSE, replaceExisting |-> FALSE]
      [] dbChoice = 3        -> [createNewDB |-> FALSE, replaceExisting |-> TRUE]

\* variant: every answer to a y/n prompt is taken as a yes
Affirmative_Always(answer) == TRUE

\* choice.toLowerCase() is 'y' or 'yes'
Affirmative(answer) == Lower(answer) \in {"y", "yes"}

\* the database menu has been answered and PostgreSQL is reachable
InitConfirm ==
    /\ pc = "run_check_db"
    /\ manager \in { [sourceType      |-> st,
                      createNewDB     |-> DatabaseMenu(c).createNewDB,
                      replaceExisting |-> DatabaseMenu(c).replaceExisting,
                      cleanupDone     |-> FALSE,
                      dbChoice        |-> c,
                      overwriteChoice |-> "none",
                      confirmChoice   |-> "none"] :
                         st \in SourceTypes, c \in 0..3 }
    /\ dbFile = Null
    /\ format = "sql"
    /\ dumpExists = FALSE
    /\ dumpSize = 0
    /\ dbExists \in BOOLEAN
    /\ tables \in 0..MaxTables
    /\ (~dbExists => tables = 0)
    /\ exitCode = 0
    /\ errorOutput = {}
    /\ stdOutput = {}
    /\ restoreSuccessful = FALSE
    /\ restoreError = "none"
    /\ caller = "none"
    /\ error = "none"
    /\ retryChoice = "none"
    /\ exitStatus = -1
    /\ reported = FALSE
    /\ log = <<>>
    /\ archive = [status |-> Idle]
    /\ extracted = <<>>
    /\ stagesRun = <<>>
    /\ listed = <<>>
    /\ commands = <<>>
    /\ ProcessIdle /\ DbeaverIdle
    /\ VerifyIdle /\ FixIdle /\ FileIdle

ConfirmFrame ==
    UNCHANGED <<format, dbExists, tables, exitCode,
                errorOutput, stdOutput, restoreSuccessful, restoreError,
                caller, retryChoice, reported, log,
                vr, fx, artifact, detected, processed,
                archive, extracted, stagesRun, listed,
                commands, process, dataSourcesFile, connectionId,
                integration>>

\* Step 5: checkDatabaseExists and, for a new database whose name is
\* taken, the prompt 'already exists. Overwrite? (y/n)'
RunCheckExists ==
    /\ pc = "run_check_db"
    /\ \E checkOk \in BOOLEAN, overwriteChoice \in Answers :
          LET seen == checkOk /\ dbExists IN
          IF manager.replaceExisting /\ seen
          THEN /\ pc' = "run_confirm"
               /\ UNCHANGED manager
          ELSE IF manager.createNewDB /\ seen
          THEN /\ manager' = [manager EXCEPT
                                 !.overwriteChoice = overwriteChoice,
                                 !.replaceExisting =
                                     IF Affirmative(overwriteChoice)
                                     THEN TRUE ELSE @]
               /\ pc' = IF Affirmative(overwriteChoice)
                        THEN "run_confirm" ELSE "run_return"
          ELSE /\ pc' = "run_confirm"
               /\ UNCHANGED manager
    /\ UNCHANGED <<dbFile, dumpExists, dumpSize, error, exitStatus>>
    /\ ConfirmFrame

\* Step 6: the restore summary and the prompt 'Proceed with restore? (y/n)'
RunConfirm ==
    /\ pc = "run_confirm"
    /\ \E confirmChoice \in Answers :
          /\ manager' = [manager EXCEPT !.confirmChoice = confirmChoice]
          /\ pc' = IF Affirmative(confirmChoice)
                   THEN "run_obtain" ELSE "run_return"
    /\ UNCHANGED <<dbFile, dumpExists, dumpSize, error, exitStatus>>
    /\ ConfirmFrame

\* Step 7 up to this.extractedDbFile = dbFile: downloadBackupFile and
\* extractBackupFile, or processLocalDumpFile and the existsSync check;
\* each returns the dump or throws to the catch of run
RunObtainDump ==
    /\ pc = "run_obtain"
    /\ \E ok \in BOOLEAN, file \in DumpFiles :
          IF ok
          THEN /\ dbFile' = file
               /\ dumpExists' = TRUE
               /\ dumpSize' = file.size
               /\ pc' = "run_recreate"
               /\ UNCHANGED error
          ELSE /\ error' = "extract"
               /\ pc' = "run_catch"
               /\ UNCHANGED <<dbFile, dumpExists, dumpSize>>
    /\ UNCHANGED <<manager, exitStatus>>
    /\ ConfirmFrame

\* 'Operation cancelled' and return: run ends without an error
RunCancel ==
    /\ pc = "run_return"
    /\ exitStatus' = 0
    /\ pc' = "done"
    /\ UNCHANGED <<manager, dbFile, dumpExists, dumpSize, error>>
    /\ ConfirmFrame

NextConfirm ==
    \/ RunCheckExists
    \/ RunConfirm
    \/ RunObtainDump
    \/ RunRecreate
    \/ RunCancel
    \/ RunCatch

SpecConfirm == InitConfirm /\ [][NextConfirm]_vars

(***************************************************************************)
(* The restore chain of run: restoreDatabase(dbFile, this.targetDatabase), *)
(* the retry prompt of its catch block and tryAlternativeRestore(dbFile).  *)
(* Each command is written to the history with the database name, the      *)
(* file path and the format it was built from.  What the commands print   *)
(* and what verification finds is left open; the flow between the calls    *)
(* is the one of the source.                                               *)
(***************************************************************************)
TargetDatabases == {"restored_db", "staging_copy"}

ChainNames == { <<"backup">>, <<"backup", "dump">>, <<"backup", "sql">> }

ChainContents == { <<>>, <<"PGDMP">>, <<"CREATE TABLE">>, <<"toc.dat">> }

\* the dump as it lies on disk during the restore phase
ChainFiles ==
    { f \in Artifacts : f.name \in ChainNames /\ f.content \in ChainContents }

\* what Step 7 hands to restoreDatabase: the object of the discovery
\* functions ({ path, format }, format "" when absent), or a path string
ChainInputs(f) ==
    { [kind |-> "object", path |-> f.name, format |-> fmt] :
         fmt \in {"", "sql", "custom", "directory"} }
    \cup { [kind |-> "string", path |-> f.name, format |-> ""] }

RECURSIVE Bytes(_)
Bytes(content) ==
    IF content = <<>> THEN 0
    ELSE TokenBytes(Head(content)) + Bytes(Tail(content))

\* variant: the format of the extraction is ignored, the file is sniffed
ResolveInput_Redetect(input, f) ==
    [filePath |-> input.path, format |-> detectDumpFormat(f)]

\* 'Handle both object and string inputs': f is the file at input.path
ResolveInput(input, f) ==
    IF input.kind = "object"
    THEN [filePath |-> input.path,
          format   |-> IF input.format # "" THEN input.format
                       ELSE detectDumpFormat(f)]
    ELSE [filePath |-> input.path, format |-> detectDumpFormat(f)]

\* a command of the restore phase with what it was built from
Call(op, ok, by, dbName, filePath, fmt) ==
    [op |-> op, ok |-> ok, by |-> by,
     db |-> dbName, path |-> filePath, format |-> fmt]

\* the commands tryOwnershipSafeRestore(filePath, format, dbName) runs
\* from rung r on, when the command of each rung q exits as oks[q] says
RECURSIVE Climb(_, _, _, _, _, _)
Climb(r, oks, who, dbName, filePath, fmt) ==
    IF r = "tosr_return" THEN <<>>
    ELSE <<Call(r, oks[r], who, dbName, filePath, fmt)>>
         \o Climb(AfterRung(r, oks[r]), oks, who, dbName, filePath, fmt)

tryOwnershipSafeRestore(filePath, fmt, dbName, oks, who) ==
    Climb(FirstRung(fmt), oks, who, dbName, filePath, fmt)

PrimaryClasses == {"none", "warnings", "ownership", "general", "fatal"}

\* Step 7 has produced dbFile and the target database is in place
InitChain ==
    /\ pc = "ch_restore"
    /\ artifact \in ChainFiles
    /\ dbFile \in ChainInputs(artifact)
    /\ manager \in { [sourceType |-> st, targetDatabase |-> db] :
                        st \in SourceTypes, db \in TargetDatabases }
    /\ format = "sql"
    /\ dumpExists = (artifact.status # "missing")
    /\ dumpSize = Bytes(artifact.content)
    /\ dbExists = TRUE
    /\ tables = 0
    /\ exitCode = 0
    /\ errorOutput = {}
    /\ stdOutput = {}
    /\ restoreSuccessful = FALSE
    /\ restoreError = "none"
    /\ caller = "none"
    /\ error = "none"
    /\ retryChoice = "none"
    /\ exitStatus = -1
    /\ reported = FALSE
    /\ log = <<>>
    /\ detected = Idle
    /\ processed = Idle
    /\ archive = [status |-> Idle]
    /\ extracted = <<>>
    /\ stagesRun = <<>>
    /\ listed = <<>>
    /\ commands = <<>>
    /\ ProcessIdle /\ DbeaverIdle
    /\ VerifyIdle /\ FixIdle

ChainFrame ==
    UNCHANGED <<dumpExists, dumpSize, dbExists, tables, exitCode,
                errorOutput, stdOutput, reported,
                vr, fx, artifact, detected, processed,
                archive, extracted, stagesRun, dbFile, listed,
                commands, manager, process, dataSourcesFile, connectionId,
                integration>>

\* restoreDatabase(dbFile, this.targetDatabase): the checks of the dump,
\* the primary command, and the ladder when the failure is a general one
\* and neither verification nor the ownership fix has thrown before it
ChainRestoreDatabase ==
    /\ pc = "ch_restore"
    /\ LET in    == ResolveInput(dbFile, artifact)
           check == CheckDumpFile(dumpExists, dumpSize)
           db    == manager.targetDatabase
       IN  /\ format' = in.format
           /\ caller' = "restoreDatabase"
           /\ IF check # "ok"
              THEN /\ error' = check
                   /\ pc' = "ch_catch"
                   /\ UNCHANGED <<log, restoreSuccessful, restoreError>>
              ELSE \E cls \in PrimaryClasses, reached \in BOOLEAN,
                      oks \in [Rungs -> BOOLEAN], threw \in BOOLEAN :
                      LET rErr == IF cls \in {"ownership", "general"}
                                  THEN cls ELSE "none"
                          climbs == /\ AfterPrimary(cls) # "run_catch_restore"
                                    /\ NeedsAlternative(rErr)
                                    /\ reached
                          fails == \/ AfterPrimary(cls) = "run_catch_restore"
                                   \/ ~reached
                                   \/ threw
                      IN  /\ restoreSuccessful' = (cls \in {"none", "warnings"})
                          /\ restoreError' = rErr
                          /\ log' = log
                                \o <<Call("primary", cls = "none",
                                          "restoreDatabase", db,
                                          in.filePath, in.format)>>
                                \o (IF climbs
                                    THEN tryOwnershipSafeRestore(
                                             in.filePath, in.format, db,
                                             oks, "restoreDatabase")
                                    ELSE <<>>)
                          /\ error' = IF fails THEN "restore" ELSE "none"
                          /\ pc' = IF fails THEN "ch_catch" ELSE "ch_report"
    /\ UNCHANGED <<retryChoice, exitStatus>>
    /\ ChainFrame

\* catch (restoreError) of run: the retry prompt
ChainCatch ==
    /\ pc = "ch_catch"
    /\ \E a \in Answers :
          /\ retryChoice' = a
          /\ pc' = IF a = "y" THEN "ch_alternative" ELSE "ch_rethrow"
    /\ UNCHANGED <<format, caller, error, log, restoreSuccessful,
                   restoreError, exitStatus>>
    /\ ChainFrame

\* tryAlternativeRestore(dbFile): the ladder, then fixDatabaseOwnership,
\* which throws or returns
ChainAlternative ==
    /\ pc = "ch_alternative"
    /\ LET in == ResolveInput(dbFile, artifact)
           db == manager.targetDatabase
       IN  \E oks \in [Rungs -> BOOLEAN], fixed \in BOOLEAN :
              /\ format' = in.format
              /\ caller' = "tryAlternativeRestore"
              /\ log' = log
                    \o tryOwnershipSafeRestore(in.filePath, in.format, db,
                                               oks, "tryAlternativeRestore")
                    \o <<Call("fix", fixed, "tryAlternativeRestore", db,
                              <<>>, "")>>
              /\ error' = IF fixed THEN "none" ELSE "alternative"
              /\ pc' = IF fixed THEN "ch_report" ELSE "ch_rethrow"
    /\ UNCHANGED <<retryChoice, restoreSuccessful, restoreError, exitStatus>>
    /\ ChainFrame

\* the error leaves the try of run: process.exit(1)
ChainRethrow ==
    /\ pc = "ch_rethrow"
    /\ exitStatus' = 1
    /\ pc' = "done"
    /\ UNCHANGED <<format, caller, error, log, retryChoice,
                   restoreSuccessful, restoreError>>
    /\ ChainFrame

\* run goes on to Step 8 and the report
ChainReport ==
    /\ pc = "ch_report"
    /\ exitStatus' = 0
    /\ pc' = "done"
    /\ UNCHANGED <<format, caller, error, log, retryChoice,
                   restoreSuccessful, restoreError>>
    /\ ChainFrame

NextChain ==
    \/ ChainRestoreDatabase
    \/ ChainCatch
    \/ ChainAlternative
    \/ ChainRethrow
    \/ ChainReport

SpecChain == InitChain /\ [][NextChain]_vars

(***************************************************************************)
(* The process from the start of run to its exit: the steps of run at the  *)
(* grain of what can end them, the catch and the finally of run, the       *)
(* handlers of SIGINT, SIGTERM and 'exit', and cleanup.  A signal is       *)
(* handled when the event loop turns, that is while run waits for a menu,  *)
(* a prompt or a download; a command run with execSync that a signal       *)
(* kills is a command that fails.                                          *)
(***************************************************************************)
\* the steps of run in order; a step ends in one of the ways listed:
\* "next" it completes, "throw" an error leaves it for the catch of run,
\* "cancel" the answer to its prompt makes run return, "ctrl_c" Ctrl+C in
\* its menu, "signal" SIGINT or SIGTERM while it waits
RunSteps ==
    << [name |-> "validate",       ends |-> {"next", "cancel", "signal"}],
       [name |-> "select_source",  ends |-> {"next", "ctrl_c", "signal"}],
       [name |-> "select_backup",  ends |-> {"next", "throw", "ctrl_c", "signal"}],
       [name |-> "database_menu",  ends |-> {"next", "ctrl_c", "signal"}],
       [name |-> "check_postgres", ends |-> {"next", "throw"}],
       [name |-> "overwrite",      ends |-> {"next", "cancel", "signal"}],
       [name |-> "confirm",        ends |-> {"next", "cancel", "signal"}],
       [name |-> "extract",        ends |-> {"next", "throw", "signal"}],
       [name |-> "recreate",       ends |-> {"next", "throw"}],
       [name |-> "restore",        ends |-> {"next", "throw", "signal"}],
       [name |-> "dbeaver",        ends |-> {"next", "ctrl_c", "signal"}],
       [name |-> "report",         ends |-> {"next"}] >>

Signals == {"SIGINT", "SIGTERM"}

\* new DatabaseRestoreManager()
NewManager ==
    [sourceType |-> "null", createNewDB |-> FALSE, replaceExisting |-> FALSE,
     cleanupDone |-> FALSE]

\* variant: nothing is registered for 'exit'
Handlers_NoExitHandler(event) ==
    CASE event \in Signals -> <<"cleanup", "exit">>
      [] event = "exit"    -> <<>>

\* process.on(event, ...): what the handler of event calls
Handlers(event) ==
    CASE event \in Signals -> <<"cleanup", "exit">>
      [] event = "exit"    -> <<"cleanup">>

HandlerCalls(event, what) ==
    \E i \in 1..Len(Handlers(event)) : Handlers(event)[i] = what

\* variant: every exit is a success
ExitCodeAt_AlwaysZero(site) == 0

\* the argument of process.exit at each site; "drain" is the exit of a
\* process whose event loop has nothing left
ExitCodeAt(site) ==
    CASE site = "catch"     -> 1
      [] site = "top_level" -> 1
      [] site = "menu"      -> 0
      [] site \in Signals   -> 0
      [] site = "drain"     -> 0

\* the body of cleanup: nothing to do when the temp directory is absent;
\* else the remove command, and when that fails manualCleanup, which
\* empties the directory without removing it or fails as well
CleanupOutcomes(temp) ==
    IF temp THEN {"removed", "emptied", "failed"} ELSE {"absent"}

AfterCleanup(p, by, outcome) ==
    [p EXCEPT !.cleanups = Append(@, [by |-> by, outcome |-> outcome]),
              !.temp = (outcome \in {"emptied", "failed"})]

\* the cleanup of the module, as the handlers call it: it makes a manager
\* of its own and calls cleanup on that
ModuleCleanup(p, by, outcome) ==
    IF NewManager.cleanupDone THEN p ELSE AfterCleanup(p, by, outcome)

ProcessFrame ==
    UNCHANGED <<format, dumpExists, dumpSize, dbExists, tables, exitCode,
                errorOutput, stdOutput, restoreSuccessful, restoreError,
                caller, retryChoice, reported, log,
                vr, fx, artifact, detected, processed,
                archive, extracted, stagesRun, dbFile, listed,
                commands, dataSourcesFile, connectionId, integration>>

\* node has loaded the module and called run on a new manager; the temp
\* directory may be there from an earlier run
InitProcess ==
    /\ pc = "pr_run"
    /\ manager \in [ sourceType : SourceTypes, createNewDB : {FALSE},
                     replaceExisting : {FALSE}, cleanupDone : {FALSE} ]
    /\ process \in [ step : {1}, temp : BOOLEAN, cleanups : {<<>>},
                     exiting : {-1} ]
    /\ format = "sql"
    /\ dumpExists = FALSE
    /\ dumpSize = 0
    /\ dbExists = FALSE
    /\ tables = 0
    /\ exitCode = 0
    /\ errorOutput = {}
    /\ stdOutput = {}
    /\ restoreSuccessful = FALSE
    /\ restoreError = "none"
    /\ caller = "none"
    /\ error = "none"
    /\ retryChoice = "none"
    /\ exitStatus = -1
    /\ reported = FALSE
    /\ log = <<>>
    /\ VerifyIdle /\ FixIdle /\ FileIdle /\ ExtractIdle /\ DbeaverIdle

Step == RunSteps[process.step]

\* the step completes; extraction leaves the temp directory behind it
PrNext ==
    /\ pc = "pr_run"
    /\ "next" \in Step.ends
    /\ process' = [process EXCEPT
                      !.step = IF process.step < Len(RunSteps)
                               THEN process.step + 1 ELSE process.step,
                      !.temp = (@ \/ Step.name = "extract")]
    /\ pc' = IF process.step < Len(RunSteps) THEN "pr_run" ELSE "pr_finally"
    /\ UNCHANGED <<error, exitStatus, manager>>
    /\ ProcessFrame

\* the step throws; extraction may have made the temp directory by then
PrThrow ==
    /\ pc = "pr_run"
    /\ "throw" \in Step.ends
    /\ \E made \in BOOLEAN :
          process' = [process EXCEPT
                         !.temp = (@ \/ (made /\ Step.name = "extract"))]
    /\ error' = Step.name
    /\ pc' = "pr_catch"
    /\ UNCHANGED <<exitStatus, manager>>
    /\ ProcessFrame

\* 'Operation cancelled': return
PrCancel ==
    /\ pc = "pr_run"
    /\ "cancel" \in Step.ends
    /\ pc' = "pr_finally"
    /\ UNCHANGED <<error, exitStatus, manager, process>>
    /\ ProcessFrame

\* selectFromMenu, Ctrl+C: process.exit(0)
PrCtrlC ==
    /\ pc = "pr_run"
    /\ "ctrl_c" \in Step.ends
    /\ process' = [process EXCEPT !.exiting = ExitCodeAt("menu")]
    /\ pc' = "pr_exit"
    /\ UNCHANGED <<error, exitStatus, manager>>
    /\ ProcessFrame

\* process.on('SIGINT' / 'SIGTERM'): cleanup(), process.exit(0)
PrSignal ==
    /\ pc = "pr_run"
    /\ "signal" \in Step.ends
    /\ \E sig \in Signals, outcome \in CleanupOutcomes(process.temp) :
          process' = [(IF HandlerCalls(sig, "cleanup")
                       THEN ModuleCleanup(process, sig, outcome)
                       ELSE process)
                      EXCEPT !.exiting = ExitCodeAt(sig)]
    /\ pc' = "pr_exit"
    /\ UNCHANGED <<error, exitStatus, manager>>
    /\ ProcessFrame

\* run, catch (error): process.exit(1); the finally of run is not reached
PrCatch ==
    /\ pc = "pr_catch"
    /\ process' = [process EXCEPT !.exiting = ExitCodeAt("catch")]
    /\ pc' = "pr_exit"
    /\ UNCHANGED <<error, exitStatus, manager>>
    /\ ProcessFrame

\* run, finally: this.cleanup(), guarded by this.cleanupDone; rl.close()
PrFinally ==
    /\ pc = "pr_finally"
    /\ \E outcome \in CleanupOutcomes(process.temp) :
          process' = IF manager.cleanupDone THEN process
                     ELSE AfterCleanup(process, "finally", outcome)
    /\ manager' = [manager EXCEPT !.cleanupDone = TRUE]
    /\ pc' = "pr_drain"
    /\ UNCHANGED <<error, exitStatus>>
    /\ ProcessFrame

\* run has returned and nothing keeps the event loop alive
PrDrain ==
    /\ pc = "pr_drain"
    /\ process' = [process EXCEPT !.exiting = ExitCodeAt("drain")]
    /\ pc' = "pr_exit"
    /\ UNCHANGED <<error, exitStatus, manager>>
    /\ ProcessFrame

\* process.on('exit'): cleanup(); then the process is gone
PrExit ==
    /\ pc = "pr_exit"
    /\ \E outcome \in CleanupOutcomes(process.temp) :
          process' = IF HandlerCalls("exit", "cleanup")
                     THEN ModuleCleanup(process, "exit", outcome)
                     ELSE process
    /\ exitStatus' = process.exiting
    /\ pc' = "exited"
    /\ UNCHANGED <<error, manager>>
    /\ ProcessFrame

NextProcess ==
    \/ PrNext
    \/ PrThrow
    \/ PrCancel
    \/ PrCtrlC
    \/ PrSignal
    \/ PrCatch
    \/ PrFinally
    \/ PrDrain
    \/ PrExit

SpecProcess == InitProcess /\ [][NextProcess]_vars

(***************************************************************************)
(* DBeaverManager.addConnection (src/src/dbeaver.js) on its own.  The      *)
(* data-sources file is modelled by whether it can be read and parsed and  *)
(* by the folders and connections maps it holds; a map is the set of its   *)
(* <<key, value>> pairs.                                                   *)
(***************************************************************************)
\* Date.now() takes a value in 1..MaxStamp
MaxStamp == 2

\* crypto.randomBytes(8) takes a value in 1..MaxRandom
MaxRandom == 2

\* `postgres-jdbc-${timestamp}-${random}`
generateConnectionId(timestamp, random) == <<"postgres-jdbc", timestamp, random>>

\* the connections a data-sources file may hold already: one under an id
\* of the form addConnection generates, one of another driver
ExistingConnections ==
    { <<generateConnectionId(1, 1), [name |-> "old_db", folder |-> "Work"]>>,
      << <<"mysql8", 1, 1>>,        [name |-> "shop",   folder |-> "Work"]>> }

\* the folders a data-sources file may hold already, with what they hold
ExistingFolders == { <<"Restored", "description">>, <<"Work", "{}">> }

FolderNames == {"Restored", "Archive"}

DbNames == {"restored_db"}

Keys(map) == { p[1] : p \in map }

\* const defaultData = { folders: {}, connections: {} }
DefaultData ==
    [hasFolders |-> TRUE, folders |-> {},
     hasConnections |-> TRUE, connections |-> {}]

\* what JSON.parse may yield: either map may be missing from the object
ParsedData ==
    { [hasFolders |-> hf, folders |-> f, hasConnections |-> hc,
       connections |-> c] :
         hf \in BOOLEAN, f \in SUBSET ExistingFolders,
         hc \in BOOLEAN, c \in SUBSET ExistingConnections }

\* "missing": existsSync is false; "unreadable": readFileSync throws;
\* "corrupt": JSON.parse throws
DataSourcesFiles ==
    { [status |-> "ok", data |-> d] :
         d \in { d \in ParsedData : /\ (~d.hasFolders => d.folders = {})
                                    /\ (~d.hasConnections => d.connections = {}) } }
    \cup
    { [status |-> st, data |-> DefaultData] :
         st \in {"missing", "unreadable", "corrupt"} }

\* readDataSources: the default is written and returned for a missing file
readDataSources(file) ==
    IF file.status = "missing" THEN DefaultData ELSE file.data

\* the connection object addConnection stores
NewConnection(dbName, folderName) == [name |-> dbName, folder |-> folderName]

\* dataSources.connections[connectionId] = {...}: an assignment to a key
Assign(map, key, value) ==
    { p \in map : p[1] # key } \cup { <<key, value>> }

\* variant: the folder is set to an empty object whether or not it is there
ensureFolder_Reset(dataSources, folderName) ==
    [dataSources EXCEPT
        !.hasFolders = TRUE,
        !.folders = Assign(dataSources.folders, folderName, "{}")]

\* ensureFolder: the folder is added only when no entry has its name
ensureFolder(dataSources, folderName) ==
    [dataSources EXCEPT
        !.hasFolders = TRUE,
        !.folders = IF folderName \in Keys(dataSources.folders)
                    THEN dataSources.folders
                    ELSE dataSources.folders \cup { <<folderName, "{}">> }]

\* addConnection is about to be called
InitDbeaver ==
    /\ RunParked
    /\ dataSourcesFile \in DataSourcesFiles
    /\ connectionId = [result |-> "pending"]
    /\ integration = [choice |-> Idle]
    /\ VerifyIdle /\ FixIdle /\ FileIdle /\ ExtractIdle
    /\ ManagerIdle /\ ProcessIdle

\* addConnection(dbName, folderName) on file, id being what
\* generateConnectionId yields: what it returns or that it throws, and the
\* file it leaves.  readDataSources throws before anything is written
\* when the file cannot be read or parsed
addConnection(file, dbName, folderName, id) ==
    IF file.status \in {"unreadable", "corrupt"}
    THEN [returned |-> [result |-> "raise"], file |-> file]
    ELSE LET dataSources == readDataSources(file)
             stored      == [dataSources EXCEPT
                                !.hasConnections = TRUE,
                                !.connections =
                                    Assign(dataSources.connections, id,
                                           NewConnection(dbName, folderName))]
         IN  [returned |-> [result |-> "returned", id |-> id],
              file     |-> [status |-> "ok",
                            data   |-> ensureFolder(stored, folderName)]]

AddConnection ==
    /\ connectionId.result = "pending"
    /\ \E dbName \in DbNames, folderName \in FolderNames,
          timestamp \in 1..MaxStamp, random \in 1..MaxRandom :
          LET r == addConnection(dataSourcesFile, dbName, folderName,
                                 generateConnectionId(timestamp, random))
          IN  /\ connectionId' = r.returned
              /\ dataSourcesFile' = r.file
    /\ UNCHANGED <<restoreVars, vr, fx, artifact, detected, processed,
                   archive, extracted, stagesRun, dbFile, listed,
                   commands, manager, process, integration>>

NextDbeaver == AddConnection

SpecDbeaver == InitDbeaver /\ [][NextDbeaver]_vars

(***************************************************************************)
(* Step 8 of run, the DBeaver integration after restoreDatabase or         *)
(* tryAlternativeRestore has returned, up to the end of run.               *)
(***************************************************************************)
\* getDbeaverFolderName: a name fixed by the source type and the platform
getDbeaverFolderName(sourceType) ==
    IF sourceType = "local" THEN "Restored" ELSE "Archive"

\* the file as readDataSources leaves it: a missing file is written with
\* the default content
AfterRead(file) ==
    IF file.status = "missing"
    THEN [status |-> "ok", data |-> DefaultData]
    ELSE file

\* readDataSources throws on this file
ReadThrows(file) == file.status \in {"unreadable", "corrupt"}

\* variant: addDbeaverConnection is called outside the try of Step 8
AfterThrow_NoTry(step) ==
    CASE step = "show"          -> "db_menu"
      [] step = "select_folder" -> "db_add"
      [] step = "add"           -> "run_catch"
      [] step = "validate"      -> "run_report"

\* where run goes on when a call of Step 8 throws: showExistingConnections,
\* selectDbeaverFolder and validateDbeaverConnection catch inside, the
\* catch (dbeaverError) of run takes the rest
AfterThrow(step) ==
    CASE step = "show"          -> "db_menu"
      [] step = "select_folder" -> "db_add"
      [] step = "add"           -> "db_catch"
      [] step = "validate"      -> "run_report"

\* the restore has succeeded and run is about to detect DBeaver
InitIntegrate ==
    /\ pc = "db_detect"
    /\ format = "sql"
    /\ dumpExists = TRUE
    /\ dumpSize = 1
    /\ dbExists = TRUE
    /\ tables = 1
    /\ exitCode = 0
    /\ errorOutput = {}
    /\ stdOutput = {}
    /\ restoreSuccessful = TRUE
    /\ restoreError = "none"
    /\ caller = "none"
    /\ error = "none"
    /\ retryChoice = "none"
    /\ exitStatus = -1
    /\ reported = FALSE
    /\ log = << Entry("primary", TRUE, "restoreDatabase"),
                Entry("verify", TRUE, "restoreDatabase") >>
    /\ manager \in [ sourceType : SourceTypes, selectedDbeaverFolder : {"none"} ]
    /\ dataSourcesFile \in DataSourcesFiles
    /\ connectionId = [result |-> "pending"]
    /\ integration = [detected |-> "pending", before |-> dataSourcesFile,
                      choice |-> "pending", caught |-> {}]
    /\ ProcessIdle
    /\ VerifyIdle /\ FixIdle /\ FileIdle /\ ExtractIdle

IntegrateFrame ==
    UNCHANGED <<format, dumpExists, dumpSize, dbExists, tables, exitCode,
                errorOutput, stdOutput, restoreSuccessful, restoreError,
                caller, retryChoice, exitStatus, reported, log,
                vr, fx, artifact, detected, processed,
                archive, extracted, stagesRun, dbFile, listed,
                commands, process>>

\* detectDbeaverPaths: a workspace directory holding the directory of a
\* data-sources file; the file itself need not exist
DbDetect ==
    /\ pc = "db_detect"
    /\ \E found \in BOOLEAN :
          /\ integration' = [integration EXCEPT
                                !.detected = IF found THEN "yes" ELSE "no"]
          /\ pc' = IF found THEN "db_show" ELSE "db_not_detected"
    /\ UNCHANGED <<error, manager, dataSourcesFile, connectionId>>
    /\ IntegrateFrame

\* showExistingConnections: readDataSources inside try / catch
DbShowExisting ==
    /\ pc = "db_show"
    /\ dataSourcesFile' = AfterRead(dataSourcesFile)
    /\ integration' = [integration EXCEPT
                          !.caught = IF ReadThrows(dataSourcesFile)
                                     THEN @ \cup {"show"} ELSE @]
    /\ pc' = IF ReadThrows(dataSourcesFile) THEN AfterThrow("show")
             ELSE "db_menu"
    /\ UNCHANGED <<error, manager, connectionId>>
    /\ IntegrateFrame

\* the menu 'DBeaver Integration Options'
DbMenu ==
    /\ pc = "db_menu"
    /\ \E choice \in {"auto", "folder", "skip"} :
          /\ integration' = [integration EXCEPT !.choice = choice]
          /\ pc' = CASE choice = "skip"   -> "run_report"
                     [] choice = "folder" -> "db_select_folder"
                     [] choice = "auto"   -> "db_add"
    /\ UNCHANGED <<error, manager, dataSourcesFile, connectionId>>
    /\ IntegrateFrame

\* selectDbeaverFolder: the default name when the read throws or the file
\* holds no folder, else a folder of the file or a name typed in
DbSelectFolder ==
    /\ pc = "db_select_folder"
    /\ LET threw   == ReadThrows(dataSourcesFile)
           folders == Keys(readDataSources(dataSourcesFile).folders)
           default == getDbeaverFolderName(manager.sourceType)
       IN  /\ \E folder \in folders \cup FolderNames :
                 /\ (threw \/ folders = {}) => folder = default
                 /\ manager' = [manager EXCEPT !.selectedDbeaverFolder = folder]
           /\ dataSourcesFile' = AfterRead(dataSourcesFile)
           /\ integration' = [integration EXCEPT
                                 !.caught = IF threw
                                            THEN @ \cup {"select_folder"} ELSE @]
           /\ pc' = IF threw THEN AfterThrow("select_folder") ELSE "db_add"
    /\ UNCHANGED <<error, connectionId>>
    /\ IntegrateFrame

\* addDbeaverConnection(this.targetDatabase)
DbAdd ==
    /\ pc = "db_add"
    /\ \E dbName \in DbNames, timestamp \in 1..MaxStamp, random \in 1..MaxRandom :
          LET folderName == IF manager.selectedDbeaverFolder # "none"
                            THEN manager.selectedDbeaverFolder
                            ELSE getDbeaverFolderName(manager.sourceType)
              r     == addConnection(dataSourcesFile, dbName, folderName,
                                     generateConnectionId(timestamp, random))
              threw == r.returned.result = "raise"
          IN  /\ connectionId' = r.returned
              /\ dataSourcesFile' = r.file
              /\ integration' = [integration EXCEPT
                                    !.caught = IF threw THEN @ \cup {"add"} ELSE @]
              /\ pc' = IF threw THEN AfterThrow("add") ELSE "db_validate"
              /\ error' = IF threw /\ AfterThrow("add") = "run_catch"
                          THEN "dbeaver" ELSE error
    /\ UNCHANGED manager
    /\ IntegrateFrame

\* validateDbeaverConnection: reads the file again inside try / catch and
\* returns true or false
DbValidate ==
    /\ pc = "db_validate"
    /\ \E readOk \in BOOLEAN :
          /\ integration' = [integration EXCEPT
                                !.caught = IF readOk THEN @
                                           ELSE @ \cup {"validate"}]
          /\ pc' = IF readOk THEN "run_report" ELSE AfterThrow("validate")
    /\ UNCHANGED <<error, manager, dataSourcesFile, connectionId>>
    /\ IntegrateFrame

\* catch (dbeaverError): a warning and showManualDbeaverSetup
DbCatch ==
    /\ pc = "db_catch"
    /\ pc' = "run_report"
    /\ UNCHANGED <<error, manager, dataSourcesFile, connectionId, integration>>
    /\ IntegrateFrame

\* 'DBeaver not detected on this system' and the prompt for instructions
DbNotDetected ==
    /\ pc = "db_not_detected"
    /\ \E installChoice \in Answers : pc' = "run_report"
    /\ UNCHANGED <<error, manager, dataSourcesFile, connectionId, integration>>
    /\ IntegrateFrame

NextIntegrate ==
    \/ DbDetect
    \/ DbShowExisting
    \/ DbMenu
    \/ DbSelectFolder
    \/ DbAdd
    \/ DbValidate
    \/ DbCatch
    \/ DbNotDetected
    \/ RunReport

SpecIntegrate == InitIntegrate /\ [][NextIntegrate]_vars

(***************************************************************************)
(* Vocabulary of the properties                                            *)
(***************************************************************************)
\* the primary restore command has run (it is always the first command)
PrimaryDone == Len(log) >= 1 /\ log[1].op = "primary"

\* some pattern of the set occurs in the text
MatchesAny(patterns, text) == \E p \in patterns : RegexTest(p, text)

\* control is inside restoreDatabase (its own ladder included)
InRestoreDatabase ==
    \/ pc \in {"rd_check_file", "rd_ensure_db", "rd_prepare", "rd_primary",
               "rd_verify1", "rd_fix", "rd_verify2", "rd_verify3",
               "rd_return", "tosr_entry"}
    \/ (pc \in Rungs \cup {"tosr_return"} /\ caller = "restoreDatabase")

\* restoreDatabase has run its primary command and has returned or thrown
RestoreDatabaseEnded == PrimaryDone /\ ~InRestoreDatabase

\* the primary command exited nonzero and its output is still at hand:
\* restoreDatabase is running, is about to return, or has just thrown
FailedAttempt ==
    /\ PrimaryDone
    /\ InRestoreDatabase \/ pc = "run_catch_restore"
    /\ exitCode # 0

\* commands that write to the target database
Writes == Rungs \cup {"primary", "fix"}

\* every rung of the ladder called by restoreDatabase has thrown
AllRungsThrew ==
    \E i \in 1..Len(log) :
        /\ log[i].by = "restoreDatabase"
        /\ ~log[i].ok
        /\ log[i].op \in {"tosr_sql_no_tx", "tosr_schema_only", "tosr_schema_data"}

\* index of the last rung of the ladder called by restoreDatabase
LastRungOfRestoreDatabase ==
    CHOOSE i \in 1..Len(log) :
        /\ log[i].op \in Rungs /\ log[i].by = "restoreDatabase"
        /\ \A j \in (i + 1)..Len(log) :
              ~(log[j].op \in Rungs /\ log[j].by = "restoreDatabase")

(***************************************************************************)
(* C1                                                                      *)
(***************************************************************************)
\* C1 as stated: after a primary command that exited nonzero, a fatal
\* pattern in stderr or stdout makes restoreDatabase throw the fatal error;
\* otherwise an ownership pattern gives OwnershipIssue; otherwise a
\* recoverable pattern gives success with warnings; otherwise GeneralFailure.
C1_FatalInEitherStream ==
    FailedAttempt =>
        IF MatchesAny(fatalErrors, errorOutput) \/ MatchesAny(fatalErrors, stdOutput)
        THEN error = "fatal"
        ELSE /\ error # "fatal"
             /\ IF MatchesAny(ownershipErrors, errorOutput)
                   \/ MatchesAny(ownershipErrors, stdOutput)
                THEN restoreError = "ownership" /\ ~restoreSuccessful
                ELSE IF MatchesAny(recoverableErrors, errorOutput)
                        \/ MatchesAny(recoverableErrors, stdOutput)
                THEN restoreError = "none" /\ restoreSuccessful
                ELSE restoreError = "general" /\ ~restoreSuccessful

\* C1 amended: the same precedence, with the fatal patterns tested against
\* stderr only; the ownership and recoverable patterns are tested against
\* stderr and stdout.
C1_FatalInStderr ==
    FailedAttempt =>
        IF MatchesAny(fatalErrors, errorOutput)
        THEN error = "fatal"
        ELSE /\ error # "fatal"
             /\ IF MatchesAny(ownershipErrors, errorOutput)
                   \/ MatchesAny(ownershipErrors, stdOutput)
                THEN restoreError = "ownership" /\ ~restoreSuccessful
                ELSE IF MatchesAny(recoverableErrors, errorOutput)
                        \/ MatchesAny(recoverableErrors, stdOutput)
                THEN restoreError = "none" /\ restoreSuccessful
                ELSE restoreError = "general" /\ ~restoreSuccessful

\* a failed attempt whose stderr holds a fatal and an ownership pattern and
\* whose stdout holds a recoverable one was classified fatal
C1_Witness ==
    /\ FailedAttempt
    /\ MatchesAny(fatalErrors, errorOutput)
    /\ MatchesAny(ownershipErrors, errorOutput)
    /\ MatchesAny(recoverableErrors, stdOutput)
    /\ error = "fatal"

(***************************************************************************)
(* C2                                                                      *)
(***************************************************************************)
\* C2 as stated: a nonzero exit with "password authentication failed" in
\* stderr is FatalFailure: restoreDatabase throws the fatal error and runs
\* neither the ownership fix nor the ladder.
C2_AuthFailureIsFatal ==
    (FailedAttempt
       /\ RegexTest(<<"password", "authentication", "failed">>, errorOutput)) =>
        /\ error = "fatal"
        /\ \A i \in 1..Len(log) :
              log[i].by = "restoreDatabase" => log[i].op = "primary"

(***************************************************************************)
(* C3                                                                      *)
(***************************************************************************)
\* C3 as stated: once an attempt is classified FatalFailure no further
\* command is run against the target, and the run ends with exit code 1.
C3_NothingAfterFatal ==
    error = "fatal" =>
        /\ Len(log) = 1
        /\ ~reported
        /\ (pc = "done" => exitStatus = 1)

(***************************************************************************)
(* C4                                                                      *)
(***************************************************************************)
\* C4: a nonzero exit whose stderr holds only "relation already exists",
\* with no fatal and no ownership pattern in either stream, is a success
\* with warnings: no general failure is recorded and restoreDatabase runs
\* neither the ownership normalizer nor the ladder.
C4_RelationExistsIsRecoverable ==
    (/\ FailedAttempt
     /\ errorOutput = {LineRelExists}
     /\ ~MatchesAny(fatalErrors, stdOutput)
     /\ ~MatchesAny(ownershipErrors, stdOutput)) =>
        /\ restoreSuccessful
        /\ restoreError = "none"
        /\ error # "fatal"
        /\ \A i \in 1..Len(log) :
              log[i].by = "restoreDatabase" => log[i].op \in {"primary", "verify"}

\* such an attempt went through verification and restoreDatabase returned
C4_Witness ==
    /\ FailedAttempt
    /\ errorOutput = {LineRelExists}
    /\ stdOutput = {}
    /\ pc = "rd_return"
    /\ Len(log) = 2

(***************************************************************************)
(* C5                                                                      *)
(***************************************************************************)
\* C5: when restoreDatabase has returned or thrown after a primary attempt
\* that was not fatal, verifyRestoration ran right after that attempt.
C5_VerifyAfterNonFatal ==
    (RestoreDatabaseEnded /\ error # "fatal") =>
        /\ Len(log) >= 2
        /\ log[2].op = "verify"
        /\ log[2].by = "restoreDatabase"

\* a general failure was verified and restoreDatabase came to its end
C5_Witness ==
    /\ RestoreDatabaseEnded
    /\ restoreError = "general"
    /\ Len(log) >= 2 /\ log[2].op = "verify"

(***************************************************************************)
(* C6                                                                      *)
(***************************************************************************)
\* C6 as stated: when the verification after the restore attempt finds no
\* table, restoreDatabase does not fail before fixDatabaseOwnership and a
\* second verification have run.
C6_FixAfterFailedVerification ==
    (/\ RestoreDatabaseEnded
     /\ Len(log) >= 2 /\ log[2].op = "verify" /\ ~log[2].ok
     /\ error = "verification") =>
        /\ Len(log) >= 4
        /\ log[3].op = "fix"
        /\ log[4].op = "verify"

(***************************************************************************)
(* C7                                                                      *)
(***************************************************************************)
\* C7 as stated: the run reports success only if a verification that passed
\* follows the last command that wrote to the target database.
C7_SuccessOnlyAfterVerification ==
    reported =>
        \E k \in 1..Len(log) :
            /\ log[k].op = "verify" /\ log[k].ok
            /\ \A w \in (k + 1)..Len(log) : log[w].op \notin Writes

(***************************************************************************)
(* C8                                                                      *)
(***************************************************************************)
\* the rung that precedes a rung in the ladder of its format
PrecedingRung(r) ==
    CASE r = "tosr_sql_no_tx"   -> "tosr_sql_single_tx"
      [] r = "tosr_data_only"   -> "tosr_minimal"
      [] r = "tosr_schema_only" -> "tosr_data_only"
      [] r = "tosr_schema_data" -> "tosr_schema_only"

\* C8: only sql and custom dumps have rungs; a ladder starts at
\* single-transaction (sql) or minimal flags (custom); every later command directly follows its predecessor in the
\* order of its format, and only after that predecessor threw (the data
\* half of the schema-first rung: only after its schema half returned); no
\* command of the ladder follows a rung that returned.
C8_LadderOrder ==
    \A i \in 1..Len(log) :
        log[i].op \in Rungs =>
            /\ (log[i].op \in {"tosr_sql_single_tx", "tosr_sql_no_tx"}) = (format = "sql")
            /\ (log[i].op \notin {"tosr_sql_single_tx", "tosr_sql_no_tx"}) = (format = "custom")
            /\ IF log[i].op \in {"tosr_sql_single_tx", "tosr_minimal"}
               THEN i = 1 \/ log[i - 1].op \notin Rungs
               ELSE /\ i > 1
                    /\ log[i - 1].op = PrecedingRung(log[i].op)
                    /\ log[i - 1].ok = (log[i].op = "tosr_schema_data")

\* the custom ladder went down to the data half of its last rung
C8_Witness ==
    \E i \in 1..Len(log) :
        /\ log[i].op = "tosr_schema_data"
        /\ i > 3 /\ log[i - 3].op = "tosr_minimal"

(***************************************************************************)
(* C9                                                                      *)
(***************************************************************************)
\* C9 as stated: when every rung of restoreDatabase's ladder threw,
\* restoreDatabase throws and the run reports no success.
C9_AllRungsThrewIsFatal ==
    (RestoreDatabaseEnded /\ AllRungsThrew) =>
        /\ error # "none"
        /\ ~reported

\* C9 amended: when every rung of restoreDatabase's ladder threw, the
\* ladder itself raises nothing; restoreDatabase runs the final verification
\* next and throws exactly when that verification fails.
C9_FinalVerificationDecides ==
    (RestoreDatabaseEnded /\ AllRungsThrew) =>
        LET k == LastRungOfRestoreDatabase IN
        /\ Len(log) > k
        /\ log[k + 1].op = "verify"
        /\ log[k + 1].by = "restoreDatabase"
        /\ log[k + 1].ok = (error = "none")

\* every rung threw and restoreDatabase returned normally all the same
C9_Witness ==
    /\ AllRungsThrew
    /\ RestoreDatabaseEnded
    /\ error = "none"

(***************************************************************************)
(* C10                                                                     *)
(***************************************************************************)
\* C10 as stated: restoreDatabase never returns or throws after an
\* OwnershipIssue without fixDatabaseOwnership and a re-verification.
C10_OwnershipAlwaysRemediated ==
    (RestoreDatabaseEnded /\ restoreError = "ownership") =>
        \E i \in 1..Len(log) :
            /\ log[i].op = "fix" /\ log[i].by = "restoreDatabase"
            /\ Len(log) > i
            /\ log[i + 1].op = "verify" /\ log[i + 1].by = "restoreDatabase"

(***************************************************************************)
(* C11: the verdict of verifyRestoration is "pass" exactly when the        *)
(* sanitized table count is greater than 0 and the verification error when *)
(* it is 0 (the count is 0 when the count query throws); a failure of the  *)
(* per-table listing, fallback listing, size, sequence-count or view-count *)
(* query neither changes the verdict nor raises.                           *)
(***************************************************************************)
C11_VerdictIsTableCount ==
    (vr.verdict \notin {Idle, "pending"} /\ vr.ok["connect"]) =>
        LET tableCount == IF vr.ok["count"] THEN vr.tables ELSE 0
        IN  /\ (vr.verdict = "pass") <=> (tableCount > 0)
            /\ (vr.verdict = "verification") <=> (tableCount = 0)

\* every secondary query failed and the verdict is still "pass"
C11_Witness ==
    /\ vr.verdict = "pass"
    /\ vr.tables = MaxTables
    /\ \A s \in {"list", "simple_list", "size", "sequences", "views"} :
          ~vr.ok[s]

(***************************************************************************)
(* C12: fixDatabaseOwnership never throws: whatever catalog queries and    *)
(* ALTER/GRANT statements fail, it returns normally to its caller.         *)
(***************************************************************************)
C12_FixNeverThrows == fx.outcome # "threw"

\* it returned although a command failed in every one of the six categories
C12_Witness ==
    /\ fx.outcome = "returned"
    /\ \A c \in CategorySet : fx.caught[c]
    /\ \E c \in CategorySet : fx.found[c] = -1

(***************************************************************************)
(* C13: fixDatabaseOwnership goes through database, schemas, tables,       *)
(* sequences, views, functions in this order and reaches all six; every    *)
(* object a category's query enumerated has a statement issued on it,      *)
(* whatever failed on the objects before it or in the categories before.   *)
(***************************************************************************)
C13_AllCategoriesInOrder ==
    fx.outcome # Idle =>
        /\ fx.started = SubSeq(Categories, 1, Len(fx.started))
        /\ (fx.outcome = "returned" => fx.started = Categories)
        /\ \A c \in CategorySet :
              fx.found[c] >= 0 => fx.touched[c] = 1..fx.found[c]

\* the schema query failed, a statement failed on a table, and still every
\* table and the later categories were processed
C13_Witness ==
    /\ fx.outcome = "returned"
    /\ fx.found["schemas"] = -1
    /\ fx.caught["tables"]
    /\ fx.found["tables"] = MaxObjects
    /\ fx.touched["tables"] = 1..MaxObjects
    /\ fx.found["functions"] >= 1
    /\ fx.touched["functions"] = 1..fx.found["functions"]

(***************************************************************************)
(* C14: every invocation of fixDatabaseOwnership issues GRANT ALL and      *)
(* GRANT USAGE on the public schema, whatever the outcome of the schema    *)
(* enumeration query and of the statements on the other schemas.           *)
(***************************************************************************)
C14_PublicGrantsAlwaysIssued ==
    fx.outcome = "returned" =>
        fx.public = { PublicGrants[i] : i \in 1..Len(PublicGrants) }

\* detectDumpFormat has returned for the artifact
Detected == detected \notin {Idle, "pending"}

(***************************************************************************)
(* C15: detectDumpFormat returns sql for every path whose extension is     *)
(* .sql and custom for every path whose extension is .dump, whatever the   *)
(* file holds and whether or not it exists.                                *)
(***************************************************************************)
C15_ExtensionDecides ==
    Detected =>
        /\ (ExtName(artifact.name) = "sql" => detected = "sql")
        /\ (ExtName(artifact.name) = "dump" => detected = "custom")

\* a .dump file whose content is SQL text is custom all the same
C15_Witness ==
    /\ Detected
    /\ ExtName(artifact.name) = "dump"
    /\ artifact.status = "readable"
    /\ artifact.content = <<"CREATE TABLE">>
    /\ detected = "custom"

(***************************************************************************)
(* C16 as stated: for every file whose first 5 bytes are the PGDMP magic,  *)
(* detectDumpFormat returns custom regardless of the extension.            *)
(***************************************************************************)
C16_MagicIsCustom ==
    (Detected /\ artifact.status = "readable" /\ HasMagic(artifact.content))
        => detected = "custom"

(***************************************************************************)
(* C16 amended: for every readable file whose first 5 bytes are the PGDMP  *)
(* magic and whose extension is not .sql (in any letter case),             *)
(* detectDumpFormat returns custom.                                        *)
(***************************************************************************)
C16_MagicIsCustomUnlessSql ==
    (/\ Detected
     /\ artifact.status = "readable"
     /\ HasMagic(artifact.content)
     /\ Lower(ExtName(artifact.name)) # "sql")
        => detected = "custom"

\* a file that starts with the magic and goes on with SQL text
C16_Witness ==
    /\ Detected
    /\ artifact.name = <<"backup", "bin">>
    /\ artifact.status = "readable"
    /\ artifact.content = <<"PGDMP", "CREATE TABLE">>
    /\ detected = "custom"

\* CREATE TABLE lies within the first 512 bytes of the content
CreateTableInPrefix(content) ==
    \E i \in 1..Len(HeaderOf(content)) : content[i] = "CREATE TABLE"

(***************************************************************************)
(* C17 as stated: for every file without extension whose first 512 bytes   *)
(* contain CREATE TABLE, detectDumpFormat returns sql.                     *)
(***************************************************************************)
C17_CreateTableIsSql ==
    (/\ Detected
     /\ artifact.status = "readable"
     /\ ExtName(artifact.name) = ""
     /\ CreateTableInPrefix(artifact.content))
        => detected = "sql"

(***************************************************************************)
(* C17 amended: for every readable file without extension whose first 512  *)
(* bytes contain CREATE TABLE and do not start with the PGDMP magic,       *)
(* detectDumpFormat returns sql.                                           *)
(***************************************************************************)
C17_CreateTableIsSqlUnlessMagic ==
    (/\ Detected
     /\ artifact.status = "readable"
     /\ ExtName(artifact.name) = ""
     /\ CreateTableInPrefix(artifact.content)
     /\ ~HasMagic(artifact.content))
        => detected = "sql"

\* the header also names toc.dat: the SQL pattern is found first
C17_Witness ==
    /\ Detected
    /\ artifact.name = <<"backup">>
    /\ artifact.status = "readable"
    /\ artifact.content = <<"toc.dat", "CREATE TABLE">>
    /\ detected = "sql"

(***************************************************************************)
(* C18: detectDumpFormat is total: for a readable, unreadable or missing   *)
(* file it returns, the result is sql, custom or directory, and for an     *)
(* unreadable or missing file whose extension is not .dump it is sql.      *)
(***************************************************************************)
C18_DetectIsTotal ==
    Detected =>
        /\ detected \in {"sql", "custom", "directory"}
        /\ (/\ artifact.status \in {"unreadable", "missing"}
            /\ Lower(ExtName(artifact.name)) # "dump") => detected = "sql"

\* a file that exists and cannot be read
C18_Witness ==
    /\ Detected
    /\ artifact.status = "unreadable"
    /\ artifact.name = <<"backup", "bin">>
    /\ detected = "sql"

\* the dispatch of C19, on the name as it is spelled
SuffixDispatch(f) ==
    IF EndsWith(f.name, <<"tar", "gz">>) \/ EndsWith(f.name, <<"tgz">>)
    THEN "tar_gz"
    ELSE IF EndsWith(f.name, <<"tar">>) THEN "tar"
    ELSE IF EndsWith(f.name, <<"gz">>) THEN "gz"
    ELSE IF EndsWith(f.name, <<"sql">>) \/ EndsWith(f.name, <<"dump">>)
    THEN "direct"
    ELSE IF HasGzipMagic(f.content) THEN "gz"
    ELSE "direct"

(***************************************************************************)
(* C19: processLocalDumpFile dispatches on the name suffix, first match    *)
(* deciding: .tar.gz or .tgz to gzip+tar extraction, .tar to tar           *)
(* extraction, .gz to gunzip, .sql or .dump to the artifact itself, and    *)
(* any other name to gunzip when the first two bytes are 0x1f 0x8b and to  *)
(* the artifact itself otherwise.                                          *)
(***************************************************************************)
C19_DispatchOnSuffix ==
    (processed \notin {Idle, "pending"} /\ artifact.status = "readable")
        => processed = SuffixDispatch(artifact)

\* the discovery stages of extractBackupFile, in the order of the source
Stages == <<"findDatabaseFile", "findBinaryDump", "findAnyDatabaseFile">>

\* the error of extractBackupFile that no stage found a dump
NoDatabaseFile == error = "no_database_file"

(***************************************************************************)
(* C20: after the tar extraction the stages run in the order extension     *)
(* search, magic scan, name-pattern scan; a stage runs only when every     *)
(* earlier one returned nothing, and extractBackupFile returns the first   *)
(* result that is not empty.  When all three return nothing it throws an   *)
(* error listing the name of every extracted file, and the run ends        *)
(* without creating, dropping or restoring a database.                     *)
(***************************************************************************)
C20_DiscoveryInOrder ==
    /\ Len(stagesRun) <= Len(Stages)
    /\ \A i \in 1..Len(stagesRun) :
          /\ stagesRun[i].stage = Stages[i]
          /\ (i < Len(stagesRun) => stagesRun[i].result = Null)
    /\ pc \in {"ex_return", "run_recreate", "run_restore", "rd_check_file"}
          /\ stagesRun # <<>>
          => /\ stagesRun[Len(stagesRun)].result # Null
             /\ dbFile = stagesRun[Len(stagesRun)].result
    /\ (pc = "ex_fail" \/ NoDatabaseFile)
          => /\ Len(stagesRun) = Len(Stages)
             /\ \A i \in 1..Len(stagesRun) : stagesRun[i].result = Null
    /\ NoDatabaseFile
          => /\ Len(listed) = Len(getAllFiles(extracted))
             /\ \A i \in 1..Len(listed) :
                   listed[i] = getAllFiles(extracted)[i].name
             /\ pc \in {"run_catch", "done"}
             /\ log = <<>>

\* files were extracted, none is a dump, and the run has ended
C20_Witness ==
    /\ NoDatabaseFile
    /\ pc = "done"
    /\ exitStatus = 1
    /\ Len(extracted) = MaxFiles
    /\ Len(listed) = MaxFiles

\* the priority the extension search is to give a file name: that of its
\* extension, 0 when the extension is not one of the dump extensions
PriorityOfExtension(name) ==
    LET ext == IF Len(name) >= 2 THEN Lower(name[Len(name)]) ELSE ""
    IN  CASE ext = "sql"     -> 1
          [] ext = "dump"    -> 2
          [] ext = "dmp"     -> 3
          [] ext = "pg_dump" -> 4
          [] ext = "backup"  -> 5
          [] ext = "bak"     -> 6
          [] OTHER           -> 0

\* the extension search has run on the extracted tree
SearchRan == Len(stagesRun) >= 1 /\ stagesRun[1].stage = "findDatabaseFile"

(***************************************************************************)
(* C21: the extension search returns a file of the extracted tree whose    *)
(* priority (.sql 1, .dump 2, .dmp 3, .pg_dump 4, .backup 5, .bak 6) is     *)
(* the least among the files with a dump extension at any depth, with the  *)
(* format of that extension; it returns nothing exactly when no file has   *)
(* a dump extension, so a file without one is never returned.  For a tree  *)
(* of one .dump and one .log it returns the .dump as custom.               *)
(***************************************************************************)
C21_LeastPriorityAtAnyDepth ==
    SearchRan =>
        LET r     == stagesRun[1].result
            files == getAllFiles(extracted)
            dumps == { i \in 1..Len(files) :
                         PriorityOfExtension(files[i].name) # 0 }
        IN  /\ (r = Null) = (dumps = {})
            /\ r # Null =>
                  /\ PriorityOfExtension(r.path) = r.priority
                  /\ r.format = (IF r.priority = 1 THEN "sql" ELSE "custom")
                  /\ \E i \in dumps : files[i].name = r.path
                                          /\ files[i].size = r.size
                  /\ \A i \in dumps :
                        r.priority <= PriorityOfExtension(files[i].name)
            /\ { files[i].name : i \in 1..Len(files) }
                   = { <<"db", "dump">>, <<"server", "log">> }
                  => r # Null /\ r.path = <<"db", "dump">>
                              /\ r.format = "custom"

\* the least priority is that of a file in a subdirectory, listed after a
\* dump of greater priority at the top
C21_Witness ==
    /\ SearchRan
    /\ Len(extracted) = 2
    /\ ~IsDirectory(extracted[1])
    /\ PriorityOfExtension(extracted[1].name) = 2
    /\ IsDirectory(extracted[2])
    /\ stagesRun[1].result # Null
    /\ stagesRun[1].result.priority = 1

\* among the files the cloud discovery could have returned at the priority
\* of the one it returned, none is larger
CloudPicksLargest ==
    (SearchRan /\ stagesRun[1].result # Null) =>
        LET r     == stagesRun[1].result
            files == getAllFiles(extracted)
        IN  \A i \in 1..Len(files) :
               PriorityOfExtension(files[i].name) = r.priority
                  => files[i].size <= r.size

\* the local tar extraction has returned the file it picked
LocalPicked ==
    /\ pc = "lp_check"
    /\ commands # <<>>
    /\ commands[Len(commands)].op = "tar"

\* among the candidates of the local discovery at the priority of the one
\* it returned, none is larger
LocalPicksLargest ==
    LocalPicked =>
        \A i \in 1..Len(extracted) :
           (/\ ~IsDirectory(extracted[i])
            /\ PriorityOfExtension(extracted[i].name) \in {1, 2}
            /\ PriorityOfExtension(extracted[i].name)
                  = PriorityOfExtension(dbFile.path))
              => extracted[i].size <= dbFile.size

(***************************************************************************)
(* C22: when the discovery finds several candidates of the same priority   *)
(* and of different sizes, the one it selects is the largest of them, on   *)
(* the cloud path (searchForDatabaseFile) and on the local path            *)
(* (findExtractedSqlFile).                                                 *)
(***************************************************************************)
C22_LargestOfEqualPriority == CloudPicksLargest /\ LocalPicksLargest

\* the magic scan has run on the extracted tree
MagicScanRan == Len(stagesRun) >= 2 /\ stagesRun[2].stage = "findBinaryDump"

\* an extension-less file of more than 1024 bytes that starts with PGDMP
StartsWithMagic(entry) ==
    /\ Len(entry.name) = 1
    /\ entry.size > 1024
    /\ HasMagic(entry.content)

(***************************************************************************)
(* C23: the magic scan accepts an extension-less file of more than 1024    *)
(* bytes as a custom dump exactly when its first 5 bytes are PGDMP: what   *)
(* it returns starts with the magic, and it returns nothing only when no   *)
(* such file exists; a file holding PGDMP at a later offset only is not    *)
(* accepted.                                                               *)
(***************************************************************************)
C23_MagicAtStartOnly ==
    MagicScanRan =>
        LET r     == stagesRun[2].result
            files == getAllFiles(extracted)
        IN  /\ (r = Null) = (\A i \in 1..Len(files) : ~StartsWithMagic(files[i]))
            /\ r # Null =>
                  /\ r.format = "custom"
                  /\ \E i \in 1..Len(files) : /\ files[i].name = r.path
                                                /\ StartsWithMagic(files[i])

(***************************************************************************)
(* C24: an extraction command that fails is the last command run on the    *)
(* backup, on the cloud and on the local path: its failure leaves the      *)
(* extraction as an extraction error that ends the run, and no other       *)
(* extraction command follows it.                                          *)
(***************************************************************************)
C24_FailedExtractionEndsProcessing ==
    \A i \in 1..Len(commands) :
       ~commands[i].ok =>
           /\ i = Len(commands)
           /\ error = "extract"
           /\ pc \in {"run_catch", "done"}

\* the policy of restoring into the database as it is: the third entry of
\* the database menu, which leaves both flags false
RestoreExisting == ~manager.createNewDB /\ ~manager.replaceExisting

\* run has dropped or created the target database
RunTouchedDatabase ==
    \E i \in 1..Len(log) : log[i].op \in {"drop", "create"}

\* restoreDatabase issued CREATE DATABASE and the statement failed
CreateRejected == error = "create_db" /\ pc = "run_catch_restore"

(***************************************************************************)
(* C25: under the restore-existing policy, with the target database        *)
(* existing, no DROP DATABASE and no CREATE DATABASE is issued, neither by  *)
(* run nor by restoreDatabase: the restore goes on against the database as  *)
(* it is.                                                                  *)
(***************************************************************************)
C25_ExistingDatabaseUntouched ==
    (RestoreExisting /\ dbExists) =>
        /\ ~RunTouchedDatabase
        /\ ~CreateRejected

\* the process has exited
Exited == pc = "exited"

\* what the last execution of the body of cleanup did to the temp directory
LastCleanup == process.cleanups[Len(process.cleanups)].outcome

C27_CleanupBodyAtMostOnce == Len(process.cleanups) <= 1

ExtractionStarts ==
    pc \in {"ex_compressed", "ex_tar", "lp_extract_tar", "lp_extract_gz"}

\* a file of an earlier run is in the extraction directory
HoldsStaleFile ==
    \E i \in 1..Len(extracted) : extracted[i].name \in
                                     { e.name : e \in StaleEntries }

(***************************************************************************)
(* C28: when the extraction command of a run starts, on the cloud and on   *)
(* the local path, the directory it extracts into holds no file that an    *)
(* earlier run left there.                                                 *)
(***************************************************************************)
C28_ExtractionDirectoryFresh == ExtractionStarts => ~HoldsStaleFile

\* addConnection has just returned or thrown
AddConnectionEnds ==
    connectionId.result = "pending" /\ connectionId'.result # "pending"

\* the maps addConnection starts from
MapsBefore == readDataSources(dataSourcesFile)

\* the parts of C30 that hold whatever id is generated: a failed read
\* leaves the file as it is, a missing file counts as empty maps, the
\* folders that were there are unchanged
FrameOfFolders ==
    /\ connectionId'.result = "raise" =>
          /\ dataSourcesFile.status \in {"unreadable", "corrupt"}
          /\ dataSourcesFile' = dataSourcesFile
    /\ connectionId'.result = "returned" =>
          /\ dataSourcesFile.status \in {"ok", "missing"}
          /\ dataSourcesFile'.status = "ok"
          /\ dataSourcesFile.status = "missing" =>
                MapsBefore.folders = {} /\ MapsBefore.connections = {}
          /\ MapsBefore.folders \subseteq dataSourcesFile'.data.folders
          /\ connectionId'.id \in Keys(dataSourcesFile'.data.connections)

RestoreOps == {"primary"} \cup Rungs

\* entry i of the history is a restore command that restoreDatabase ran,
\* itself or through the ladder it calls
RanByRestoreDatabase(i) ==
    log[i].op \in RestoreOps /\ log[i].by = "restoreDatabase"

\* restoreDatabase threw at one of its checks before the primary command
ThrewAtCheck == error \in {"dump_missing", "dump_empty", "create_db"}

(***************************************************************************)
(* C33: restoreDatabase runs a restore command only when the dump file     *)
(* exists, is not empty and the target database exists; when the dump      *)
(* file is missing or empty, or CREATE DATABASE fails, it throws and has   *)
(* run no restore command.                                                 *)
(***************************************************************************)
C33_NoRestoreWithoutDumpAndDatabase ==
    /\ \A i \in 1..Len(log) :
          RanByRestoreDatabase(i) =>
             /\ dumpExists
             /\ dumpSize > 0
             /\ dbExists
             /\ ~ThrewAtCheck
    /\ pc \in {"rd_ensure_db", "rd_prepare", "rd_primary"} =>
          dumpExists /\ dumpSize > 0
    /\ pc \in {"rd_prepare", "rd_primary"} => dbExists
    /\ (pc = "run_catch_restore" /\ ThrewAtCheck) => log = <<>>

\* the primary command has run, on a dump that is not empty and a
\* database that exists
C33_Witness ==
    /\ pc = "rd_verify1"
    /\ RanByRestoreDatabase(1)
    /\ dumpSize > 0
    /\ dbExists

\* the ladder has returned: tryOwnershipSafeRestore is at its end
LadderReturned == pc = "tosr_return"

\* rung r is in the history, run for caller who
RungRan(r, who) ==
    \E i \in 1..Len(log) : log[i].op = r /\ log[i].by = who

(***************************************************************************)
(* C34: for a dump of directory format the ladder runs the rungs of the    *)
(* custom format: when it returns, the minimal-flags rung has been         *)
(* attempted, and the data-only and the schema-only rungs each after the   *)
(* failure of the rung before; the ladder is not skipped.                  *)
(***************************************************************************)
C34_DirectoryLadderAsCustom ==
    (LadderReturned /\ format = "directory" /\ restoreError = "general"
        /\ caller = "restoreDatabase") =>
       /\ RungRan("tosr_minimal", caller)
       /\ \A i \in 1..Len(log) :
             (log[i].op = "tosr_minimal" /\ ~log[i].ok) =>
                RungRan("tosr_data_only", caller)

\* the primary command exited with code 0
PrimaryExitedZero == PrimaryDone /\ log[1].ok

(***************************************************************************)
(* C37: a primary restore command that exits with code 0 is a success for  *)
(* restoreDatabase whatever it printed: restoreSuccessful is set and no    *)
(* restoreError, nothing fatal is thrown for the attempt, and              *)
(* restoreDatabase runs no ownership pass and no rung of the ladder.       *)
(***************************************************************************)
C37_ExitZeroIsSuccess ==
    PrimaryExitedZero =>
       /\ restoreSuccessful
       /\ restoreError = "none"
       /\ error # "fatal"
       /\ pc \notin {"rd_fix", "rd_verify2", "rd_verify3", "tosr_entry"}
       /\ \A i \in 1..Len(log) :
             log[i].by = "restoreDatabase" =>
                log[i].op \in {"primary", "verify"}
       /\ Cardinality({ i \in 1..Len(log) : log[i].op = "verify" }) <= 1

\* restoreDatabase is about to return after a command that exited 0 and
\* printed a fatal and an ownership pattern
C37_Witness ==
    /\ pc = "rd_return"
    /\ PrimaryExitedZero
    /\ exitCode = 0
    /\ hasFatalErrors(errorOutput, stdOutput)
    /\ hasOwnershipErrors(errorOutput, stdOutput)

\* the primary command of this call was classified as a general failure
GeneralFailure == PrimaryDone /\ restoreError = "general"

\* entry i of the history is a step of restoreDatabase of kind op that
\* ended as ok says
StepAt(i, op, ok) ==
    /\ Len(log) >= i
    /\ log[i].op = op
    /\ log[i].ok = ok
    /\ log[i].by = "restoreDatabase"

\* verify, normalizer and re-verify have completed, in that order, right
\* after the primary command
NormalizedAndVerified ==
    /\ StepAt(2, "verify", TRUE)
    /\ StepAt(3, "fix", TRUE)
    /\ StepAt(4, "verify", TRUE)

\* the ladder called by restoreDatabase has started
LadderStarted ==
    \/ pc = "tosr_entry"
    \/ pc = "rd_verify3"
    \/ (pc \in Rungs \cup {"tosr_return"} /\ caller = "restoreDatabase")
    \/ \E i \in 1..Len(log) :
          log[i].op \in Rungs /\ log[i].by = "restoreDatabase"

(***************************************************************************)
(* C38: in a call of restoreDatabase whose primary command is a general    *)
(* failure the steps come in the order verify, ownership normalizer,       *)
(* re-verify, ladder, final verify: the ladder starts only after the       *)
(* normalizer and its re-verification have completed, it does not start    *)
(* when one of the two verifications failed, the normalizer runs at most   *)
(* once in the call, and the call returns only after a verification that   *)
(* follows the ladder.                                                     *)
(***************************************************************************)
C38_GeneralFailureOrder ==
    GeneralFailure =>
       /\ LadderStarted => NormalizedAndVerified
       /\ \A i \in 1..Len(log) :
             (log[i].op \in Rungs /\ log[i].by = "restoreDatabase") => i > 4
       /\ (StepAt(2, "verify", FALSE) \/ StepAt(4, "verify", FALSE)) =>
             ~LadderStarted
       /\ Cardinality({ i \in 1..Len(log) :
                          log[i].op = "fix" /\ log[i].by = "restoreDatabase" }) <= 1
       /\ pc = "rd_return" =>
             /\ NormalizedAndVerified
             /\ StepAt(Len(log), "verify", TRUE)
             /\ Len(log) > 4

\* restoreDatabase is about to return after a general failure, the
\* normalizer, the ladder with a rung that ran and the final verification
C38_Witness ==
    /\ GeneralFailure
    /\ pc = "rd_return"
    /\ \E i \in 1..Len(log) :
          log[i].op \in Rungs /\ log[i].by = "restoreDatabase"

\* the SQL markers of C35: the meta-command with its backslash, not the
\* bare word
MetaCommandMarkers == { "--", "CREATE", "INSERT", "SET ", "\\connect", "BEGIN;" }

\* detectDumpFormat has read the first bytes of a readable file whose
\* extension decides nothing and which does not start with the magic
SniffedWithoutMagic ==
    /\ detected # "pending"
    /\ artifact.status = "readable"
    /\ ByExtension(Lower(ExtName(artifact.name))) = "none"
    /\ ~HasMagic(artifact.content)

(***************************************************************************)
(* C35: for a file without .sql or .dump extension and without the PGDMP   *)
(* magic, detectDumpFormat returns directory exactly when the first 512    *)
(* bytes contain toc.dat or restore.sql and none of the SQL markers --,    *)
(* CREATE, INSERT, 'SET ', \connect, BEGIN; where connect without the      *)
(* backslash is no marker.                                                 *)
(***************************************************************************)
C35_DirectoryUnlessSqlMarker ==
    SniffedWithoutMagic =>
       (detected = "directory" <=>
           /\ \E m \in DirectoryMarkers :
                 HeaderIncludes(HeaderOf(artifact.content), m)
           /\ ~\E m \in MetaCommandMarkers :
                 HeaderIncludes(HeaderOf(artifact.content), m))

\* the three discovery stages of extractBackupFile, each run when the one
\* before found nothing
CloudDiscovery(dir) ==
    IF findDatabaseFile(dir) # Null THEN findDatabaseFile(dir)
    ELSE IF findBinaryDump(dir) # Null THEN findBinaryDump(dir)
    ELSE findAnyDatabaseFile(dir)

\* both discoveries fail, or both select the same file
SameSelection(a, b) ==
    /\ a = Null <=> b = Null
    /\ a # Null => (a.path = b.path /\ a.size = b.size)

\* tar has unpacked the archive and the discovery of this run has ended
DiscoveredAfterTar ==
    /\ \E i \in 1..Len(commands) : commands[i].op = "tar" /\ commands[i].ok
    /\ pc \in {"ex_return", "ex_fail", "lp_check", "run_catch", "run_recreate"}

(***************************************************************************)
(* C39: on the same extracted tree the discovery of the local path         *)
(* (findExtractedSqlFile) and the discovery of the cloud path              *)
(* (findDatabaseFile, findBinaryDump, findAnyDatabaseFile) select the      *)
(* same file, and one finds no dump exactly when the other finds none.     *)
(***************************************************************************)
C39_SameDumpOnBothPaths ==
    DiscoveredAfterTar =>
       /\ SameSelection(CloudDiscovery(extracted),
                        findExtractedSqlFile(extracted))
       /\ (manager.sourceType = "cloud" /\ pc = "ex_return") =>
             dbFile = CloudDiscovery(extracted)
       /\ (manager.sourceType = "local" /\ pc = "lp_check") =>
             dbFile = findExtractedSqlFile(extracted)

\* a call of Step 8 threw while the connection was selected, added or
\* validated
IntegrationFailed ==
    integration.caught \cap {"select_folder", "add", "validate"} # {}

(***************************************************************************)
(* C31: after a restore that succeeded, a failure of the DBeaver step      *)
(* (folder selection, adding the connection, validating it) does not       *)
(* abort the run and does not change its outcome: no error reaches the     *)
(* catch of run, Step 8 always goes on to the report, and the run ends     *)
(* reported as successful with exit code 0.                                *)
(***************************************************************************)
C31_IntegrationFailureHarmless ==
    /\ pc # "run_catch"
    /\ error = "none"
    /\ exitStatus \in {-1, 0}
    /\ restoreSuccessful
    /\ pc = "done" => (reported /\ exitStatus = 0)
    /\ pc # "done" => ENABLED NextIntegrate

\* the run has ended after addConnection threw
C31_Witness ==
    /\ pc = "done"
    /\ "add" \in integration.caught
    /\ exitStatus = 0

\* the run has ended without the connection step: the user chose to skip
\* it or DBeaver was not detected
IntegrationSkipped ==
    /\ pc = "done"
    /\ integration.choice = "skip" \/ integration.detected = "no"

(***************************************************************************)
(* C40: when the user chooses 'Skip DBeaver integration' or DBeaver is     *)
(* not detected, the run writes nothing to the data-sources file: the      *)
(* file exists after the run exactly when it did before, with the same     *)
(* content.                                                                *)
(***************************************************************************)
C40_SkipLeavesDataSources ==
    IntegrationSkipped => dataSourcesFile = integration.before

\* run has executed dropDatabase on the target
Dropped == \E i \in 1..Len(log) : log[i].op = "drop"

\* the user asked for the existing database to be replaced: by the menu,
\* or by a yes to the overwrite prompt
ReplaceAskedFor ==
    \/ manager.dbChoice = 3
    \/ manager.overwriteChoice \in {"y", "yes"}

(***************************************************************************)
(* C36: dropDatabase is executed only when the user chose the              *)
(* replace-existing policy or answered y or yes to the overwrite prompt,   *)
(* answered y or yes to 'Proceed with restore?', and the download and      *)
(* extraction have completed without error; a run whose extraction or      *)
(* dump discovery fails drops nothing.                                     *)
(***************************************************************************)
C36_DropOnlyAfterConsentAndExtraction ==
    /\ Dropped =>
          /\ ReplaceAskedFor
          /\ manager.confirmChoice \in {"y", "yes"}
          /\ dbFile # Null
          /\ error # "extract"
    /\ pc \in {"run_check_db", "run_confirm", "run_obtain", "run_return"}
          => ~Dropped
    /\ (manager.confirmChoice \notin {"y", "yes"} /\ pc = "done") => log = <<>>

\* the database was dropped for a new-database choice after a yes to the
\* overwrite prompt
C36_Witness ==
    /\ Dropped
    /\ manager.dbChoice \in {0, 1}
    /\ manager.overwriteChoice = "yes"
    /\ manager.confirmChoice = "y"

\* entry i of the history is a command that restores the dump
RestoresDump(i) == log[i].op \in RestoreOps

\* the format the dump was detected with: the one the extraction attached
\* to it, where it attached one
ExtractionFormat == IF dbFile.kind = "object" THEN dbFile.format ELSE ""

(***************************************************************************)
(* C32: during the restore phase every command is issued against the one   *)
(* target database name chosen before it, and the primary restore, the     *)
(* rungs run by restoreDatabase and the rungs run by tryAlternativeRestore *)
(* all take the same dump: the path Step 7 handed over and one format,     *)
(* the format of the extraction where it gave one.                         *)
(***************************************************************************)
C32_OneTargetOneDump ==
    /\ \A i \in 1..Len(log) : log[i].db = manager.targetDatabase
    /\ \A i \in 1..Len(log) :
          RestoresDump(i) =>
             /\ log[i].path = dbFile.path
             /\ ExtractionFormat # "" => log[i].format = ExtractionFormat
    /\ \A i, j \in 1..Len(log) :
          (RestoresDump(i) /\ RestoresDump(j)) =>
             log[i].format = log[j].format

\* the primary restore, a rung of restoreDatabase and a rung of the retry
\* have all run, on an extension-less dump the extraction called custom
C32_Witness ==
    /\ \E i \in 1..Len(log) : log[i].op = "primary"
    /\ \E i \in 1..Len(log) :
          log[i].op \in Rungs /\ log[i].by = "restoreDatabase"
    /\ \E i \in 1..Len(log) :
          log[i].op \in Rungs /\ log[i].by = "tryAlternativeRestore"
    /\ dbFile.kind = "object"
    /\ dbFile.format = "custom"
    /\ detectDumpFormat(artifact) = "sql"

====
